---- MODULE Spec2Model ----
(***************************************************************************)
(* Model of the remote-object proxy layer of qcodes_measurements:          *)
(* RPGWrappedBase (plot/local/RemoteProcessWrapper.py, with the ownership  *)
(* bookkeeping of plot/pyplot.py), its wrapper subclasses, the worker      *)
(* process lifecycle and the request pump of plot/multiprocess.py.         *)
(***************************************************************************)
EXTENDS Integers, Sequences, FiniteSets, TLC

(***************************************************************************)
(* Bounds of the model.                                                    *)
(***************************************************************************)
MaxObjs   == 3      \* local ObjectProxy / RPGWrappedBase instances
MaxRObjs  == 3      \* objects living in worker processes
MaxProcs  == 3      \* worker processes ever spawned
MaxCalls  == 3      \* method calls issued on remote objects
MaxFuncs  == 3      \* callables __getattr__ has made and a cache or its caller holds
MaxReqs   == 3      \* requests written to the channel of the request pumps
MaxRuns   == 3      \* datasets started
MaxVolt   == 6      \* largest magnitude of a gate value a feedback may start from
MaxCached == 1      \* wrapped objects whose attributes are resolved

VARIABLES
    rpg,             \* RemoteProcessWrapper.rpg: 0 is None, else the pid it was imported from
    handlers,        \* QtProcess.handlers: pids with a registered event handler
    procs,           \* pid -> [alive, configured]
    robjs,           \* remote object id -> [cname, proc, elems]
    objs,            \* local object id -> ObjectProxy or RPGWrappedBase instance
    subclass_types,  \* RPGWrappedBase._subclass_types: [built, map]
    callables,       \* callable id -> proxy of a remote bound method, or a closure around one
    conn,            \* requests written to the pipe and not yet read by the worker
    issued,          \* every method call in the order the controller issued it
    handled,         \* every method call in the order the worker handled it
    last,            \* what the last operation was given and what it returned
    register,        \* a Register of device/register.py
    digital_gate,    \* a DigitalGate of device/digital.py with its wrapper
    fbk,             \* a Feedback of device/feedback.py with its gate and meter
    mdac_chan,       \* an MDAC channel with its MDACWrapper (device/mdac_wrappers.py)
    sweep,           \* a live-plotted sweep of tools/doNd.py or tools/measure.py
    pumps            \* the request pumps of plot/multiprocess.py and their channel

vars == <<rpg, handlers, procs, robjs, objs, subclass_types, callables,
          conn, issued, handled, last, register, digital_gate, fbk, mdac_chan,
          sweep, pumps>>

\* the state of the plot layer and the state of the device layer
plot_vars   == <<rpg, handlers, procs, robjs, objs, subclass_types, callables,
                 conn, issued, handled, last>>
device_vars == <<register, digital_gate, fbk, mdac_chan, sweep, pumps>>

(***************************************************************************)
(* The wrapper classes of plot/local: the classes in definition order,     *)
(* the wrapper class each one derives from and the _base each declares in  *)
(* its own class body ("" where the class body declares none).             *)
(***************************************************************************)
Classes ==
    << "BasePlotWindow", "PlotWindow", "BasePlotItem", "PlotItem",
       "PlotDataItem", "ExtendedPlotDataItem", "HistogramLUTItem",
       "ImageItem", "ExtendedImageItem", "ImageItemWithHistogram",
       "ColorMap", "TableWidget", "LegendItem", "TextItem", "PlotAxis",
       "VoronoiPlot", "ColorMesh" >>

ClassSet == {Classes[i] : i \in 1..Len(Classes)} \cup {"RPGWrappedBase"}

Parent(cls) ==
    CASE cls = "PlotWindow"             -> "BasePlotWindow"
      [] cls = "PlotItem"               -> "BasePlotItem"
      [] cls = "ExtendedPlotDataItem"   -> "PlotDataItem"
      [] cls = "ExtendedImageItem"      -> "ImageItem"
      [] cls = "ImageItemWithHistogram" -> "ExtendedImageItem"
      [] cls = "RPGWrappedBase"         -> "ObjectProxy"
      [] OTHER                          -> "RPGWrappedBase"

_base(cls) ==
    CASE cls = "BasePlotWindow"         -> "GraphicsLayoutWidget"
      [] cls = "PlotWindow"             -> "ExtendedPlotWindow"
      [] cls = "BasePlotItem"           -> "PlotItem"
      [] cls = "PlotItem"               -> "ExtendedPlotItem"
      [] cls = "PlotDataItem"           -> "PlotDataItem"
      [] cls = "ExtendedPlotDataItem"   -> "ExtendedPlotDataItem"
      [] cls = "HistogramLUTItem"       -> "HistogramLUTItem"
      [] cls = "ImageItem"              -> "ImageItem"
      [] cls = "ExtendedImageItem"      -> "ExtendedImageItem"
      [] cls = "ImageItemWithHistogram" -> "ImageItemWithHistogram"
      [] cls = "ColorMap"               -> "ColorMap"
      [] cls = "TableWidget"            -> "TableWidget"
      [] cls = "LegendItem"             -> "LegendItem"
      [] cls = "TextItem"               -> "DraggableTextItem"
      [] cls = "PlotAxis"               -> "AxisItem"
      [] cls = "VoronoiPlot"            -> "VoronoiPlot"
      [] cls = "ColorMesh"              -> "ColorMesh"
      [] OTHER                          -> ""

\* cls.__mro__ restricted to the wrapper classes
RECURSIVE mro(_)
mro(cls) == IF cls = "ObjectProxy" THEN << >> ELSE <<cls>> \o mro(Parent(cls))

\* getattr(typ, '_base', None): the first declaration along the mro, "" is None
getattr_base(typ) ==
    LET m == mro(typ)
        hit == {i \in 1..Len(m) : _base(m[i]) # ""}
    IN  IF hit = {} THEN ""
        ELSE _base(m[CHOOSE i \in hit : \A j \in hit : i <= j])

\* cls.__subclasses__() in definition order
__subclasses__(cls) == SelectSeq(Classes, LAMBDA c : Parent(c) = cls)

(***************************************************************************)
(* Runtime types of remote objects: the module path of each type, and the  *)
(* repr() the transport stores as _typeStr, as a sequence of tokens.       *)
(***************************************************************************)
ModulePath(cname) ==
    CASE cname \in {"ExtendedPlotWindow"}
            -> <<"qcodes_measurements", "plot", "remote", "PlotWindow">>
      [] cname \in {"ExtendedPlotItem"}
            -> <<"qcodes_measurements", "plot", "remote", "PlotItem">>
      [] cname \in {"ExtendedPlotDataItem"}
            -> <<"qcodes_measurements", "plot", "remote", "PlotDataItem">>
      [] cname \in {"ExtendedImageItem", "ImageItemWithHistogram"}
            -> <<"qcodes_measurements", "plot", "remote", "ImageItem">>
      [] cname \in {"QTableWidgetItem", "QGraphicsProxyWidget"}
            -> <<"PyQt5", "QtWidgets">>
      [] cname \in {"list", "tuple", "method"}
            -> <<"builtins">>
      [] OTHER
            -> <<"pyqtgraph", "graphicsItems", cname>>

\* identifiers that contain a digit, so that [a-zA-Z_.]+ does not match them
DigitWords == {"PyQt5"}
Punctuation == {"<", ">", ".", " object at 0x", "7f3a", "[", "]", "(", ")", "<bound method "}
IsAlphaWord(tok) == tok \notin DigitWords /\ tok \notin Punctuation

RECURSIVE Dotted(_)
Dotted(path) ==
    IF path = << >> THEN << >>
    ELSE IF Len(path) = 1 THEN path
    ELSE <<Head(path), ".">> \o Dotted(Tail(path))

\* repr() of a remote object, kept by the transport as ObjectProxy._typeStr
_typeStr(cname) ==
    CASE cname = "list"   -> <<"[", "]">>
      [] cname = "tuple"  -> <<"(", ")">>
      [] cname = "method" -> <<"<bound method ", "owner", ".", "name", ">">>
      [] OTHER -> <<"<">> \o Dotted(ModulePath(cname) \o <<cname>>)
                  \o <<" object at 0x", "7f3a", ">">>

\* re.match(r"<[a-zA-Z_.]+\.([a-zA-Z_]+) object at 0x[0-9A-Fa-f]+>", s): the
\* captured group, or "" when the pattern does not match
re_match_typestr(s) ==
    LET ks == {k \in 3..Len(s) :
                 /\ s[k] = "."
                 /\ k + 4 <= Len(s)
                 /\ IsAlphaWord(s[k + 1])
                 /\ s[k + 2] = " object at 0x"
                 /\ s[k + 3] = "7f3a"
                 /\ s[k + 4] = ">"
                 /\ \A j \in 2..(k - 1) : s[j] = "." \/ IsAlphaWord(s[j])}
    IN  IF Len(s) >= 1 /\ s[1] = "<" /\ ks # {}
        THEN s[(CHOOSE k \in ks : TRUE) + 1]
        ELSE ""

(***************************************************************************)
(* The type registry built by autowrap on first use.                      *)
(***************************************************************************)
DictSet(d, k, v) == [x \in (DOMAIN d) \cup {k} |-> IF x = k THEN v ELSE d[x]]

RECURSIVE append_subclasses(_, _)
RECURSIVE append_each(_, _)
RECURSIVE append_direct_only(_, _)
\* the loop without the recursive call: only direct subclasses are registered
append_direct_only(sc_dict, ts) ==
    IF ts = << >> THEN sc_dict
    ELSE LET typ  == Head(ts)
             base == getattr_base(typ)
             d2   == IF base = "" THEN sc_dict ELSE DictSet(sc_dict, base, typ)
         IN  append_direct_only(d2, Tail(ts))

\* the body of the loop "for typ in cls.__subclasses__()", over the sequence ts
append_each(sc_dict, ts) ==
    IF ts = << >> THEN sc_dict
    ELSE LET typ  == Head(ts)
             d1   == append_subclasses(sc_dict, typ)
             base == getattr_base(typ)
             d2   == IF base = "" THEN d1 ELSE DictSet(d1, base, typ)
         IN  append_each(d2, Tail(ts))
append_subclasses(sc_dict, cls) == append_each(sc_dict, __subclasses__(cls))

EmptyDict == [x \in {} |-> ""]

(***************************************************************************)
(* Python values handled by the layer: None, plain data, a reference to a  *)
(* local ObjectProxy / RPGWrappedBase instance, or a tuple of values.      *)
(***************************************************************************)
None      == [k |-> "none",  id |-> 0, elems |-> << >>]
Plain(n)  == [k |-> "plain", id |-> n, elems |-> << >>]
Obj(i)    == [k |-> "obj",   id |-> i, elems |-> << >>]
Tuple(es) == [k |-> "tuple", id |-> 0, elems |-> es]

\* isinstance(v, ObjectProxy) and isinstance(v, RPGWrappedBase) in heap h
IsObjectProxy(v)     == v.k = "obj"
IsRPGWrapped(h, v)   == v.k = "obj" /\ h[v.id].cls # "ObjectProxy"

\* a bare ObjectProxy for remote object r, as the transport returns it
NewProxy(r) ==
    [cls |-> "ObjectProxy", rid |-> r, via |-> "proxy", inits |-> 0, wraps |-> 0,
     items |-> << >>, parent |-> 0, rf |-> EmptyDict, rfo |-> {},
     attrs |-> EmptyDict]

\* the fire-and-forget options each class declares, in __init__ and in __wrap__
DeclaredOptions(cls) ==
    CASE cls = "PlotDataItem"         -> {"setData"}
      [] cls = "ExtendedPlotDataItem" -> {"update", "setData"}
      [] cls = "HistogramLUTItem"     -> {"setLevels", "imageChanged"}
      [] cls \in {"ImageItem", "ExtendedImageItem", "ImageItemWithHistogram"}
                                      -> {"setImage"}
      [] OTHER                        -> {}

\* the options the body of cls.__init__ assigns after its call of
\* super().__init__, and the options the body of cls.__wrap__ assigns after
\* its call of super().__wrap__ ({} where the class defines no such method
\* or the method assigns none)
own_init_options(cls) ==
    CASE cls = "PlotDataItem"         -> {"setData"}
      [] cls = "ExtendedPlotDataItem" -> {"update", "setData"}
      [] cls = "HistogramLUTItem"     -> {"setLevels", "imageChanged"}
      [] cls = "ImageItem"            -> {"setImage"}
      [] OTHER                        -> {}

\* a __wrap__ that declares the options of the wrapper base class only
own_wrap_options_none(cls) == {}

own_wrap_options(cls) ==
    CASE cls = "PlotDataItem"         -> {"setData"}
      [] cls = "ExtendedPlotDataItem" -> {"update", "setData"}
      [] cls = "HistogramLUTItem"     -> {"setLevels", "imageChanged"}
      [] cls = "ImageItem"            -> {"setImage"}
      [] OTHER                        -> {}

\* _remote_function_options as the chain of __init__ methods along the mro
\* leaves it: RPGWrappedBase.__init__ starts from {} and every subclass adds
\* its own after calling super().__init__
init_options(cls) ==
    UNION {own_init_options(mro(cls)[i]) : i \in 1..Len(mro(cls))}

\* the same for the chain of __wrap__ methods
wrap_options(cls) ==
    UNION {own_wrap_options(mro(cls)[i]) : i \in 1..Len(mro(cls))}

\* the remote methods the constructors along the mro resolve through
\* __getattr__ and call (ExtendedImageItem overrides _force_rescale with a
\* method that calls none)
init_calls(cls) ==
    CASE cls \in {"BasePlotWindow", "PlotWindow"} -> {"show"}
      [] cls = "ImageItem"
            -> {"resetTransform", "translate", "scale", "setLookupTable"}
      [] cls \in {"ExtendedImageItem", "ImageItemWithHistogram"}
            -> {"setLookupTable"}
      [] OTHER -> {}

\* _remote_functions when the constructor returns: __getattr__ stores the
\* callables that have a declared option
init_cache(cls) ==
    [x \in init_calls(cls) \cap init_options(cls) |-> ""]

\* cls.__new__(cls): an instance on which no constructor and no hook has run
__new__(cls) ==
    [cls |-> cls, rid |-> 0, via |-> "new", inits |-> 0, wraps |-> 0,
     items |-> << >>, parent |-> 0, rf |-> EmptyDict, rfo |-> {},
     attrs |-> EmptyDict]

\* RPGWrappedBase.__wrap__ and its overrides, run on instance self
__wrap__(self) ==
    [self EXCEPT !.wraps = @ + 1, !.items = << >>, !.parent = 0,
                 !.rf = EmptyDict, !.rfo = wrap_options(self.cls)]

\* wrap that builds the instance with the normal constructor
wrap_calls_init(h, cls, instance) ==
    IF ~IsObjectProxy(instance)
    THEN [objs |-> h, res |-> None, err |-> "TypeError"]
    ELSE [objs |-> Append(h, [__new__(cls) EXCEPT !.rid = h[instance.id].rid,
                                                  !.via = "wrap", !.inits = 1,
                                                  !.rfo = DeclaredOptions(cls)]),
          res  |-> Obj(Len(h) + 1),
          err  |-> ""]

\* RPGWrappedBase.wrap(cls, instance): [objs, res, err]
wrap(h, cls, instance) ==
    IF ~IsObjectProxy(instance)
    THEN [objs |-> h, res |-> None, err |-> "TypeError"]
    ELSE LET base_inst == [__new__(cls) EXCEPT !.rid = h[instance.id].rid,
                                               !.via = "wrap"]
         IN  [objs |-> Append(h, __wrap__(base_inst)),
              res  |-> Obj(Len(h) + 1),
              err  |-> ""]

\* the registry as autowrap leaves it: built on first use, kept afterwards
populate(st) ==
    IF st.built THEN st
    ELSE [built |-> TRUE, map |-> append_subclasses(EmptyDict, "RPGWrappedBase")]

\* RPGWrappedBase.autowrap(inst) in heap h with registry map reg: [objs, res]
RECURSIVE autowrap(_, _, _)
RECURSIVE autowrap_items(_, _, _, _)
\* tuple(autowrap(inst[i]) for i in range(len(inst))): every inst[i] is a new
\* ObjectProxy for the i-th element of the remote sequence
autowrap_items(h, reg, rids, acc) ==
    IF rids = << >> THEN [objs |-> h, res |-> Tuple(acc)]
    ELSE LET h1 == Append(h, NewProxy(Head(rids)))
             r  == autowrap(h1, reg, Obj(Len(h1)))
         IN  autowrap_items(r.objs, reg, Tail(rids), Append(acc, r.res))
\* autowrap without the test for an instance that is already wrapped
autowrap_rewraps(h, reg, inst) ==
    IF ~IsObjectProxy(inst) THEN [objs |-> h, res |-> inst]
    ELSE LET ro == robjs[h[inst.id].rid] IN
         IF ro.cname \in {"tuple", "list"}
         THEN autowrap_items(h, reg, ro.elems, << >>)
         ELSE LET typestr == re_match_typestr(_typeStr(ro.cname)) IN
              IF typestr # "" /\ typestr \in DOMAIN reg
              THEN LET w == wrap(h, reg[typestr], inst)
                   IN  [objs |-> w.objs, res |-> w.res]
              ELSE [objs |-> h, res |-> inst]

autowrap(h, reg, inst) ==
    IF ~IsObjectProxy(inst) THEN [objs |-> h, res |-> inst]
    ELSE IF IsRPGWrapped(h, inst) THEN [objs |-> h, res |-> inst]
    ELSE LET ro == robjs[h[inst.id].rid] IN
         IF ro.cname \in {"tuple", "list"}
         THEN autowrap_items(h, reg, ro.elems, << >>)
         ELSE LET typestr == re_match_typestr(_typeStr(ro.cname)) IN
              IF typestr # "" /\ typestr \in DOMAIN reg
              THEN LET w == wrap(h, reg[typestr], inst)
                   IN  [objs |-> w.objs, res |-> w.res]
              ELSE [objs |-> h, res |-> inst]

(***************************************************************************)
(* The worker process: start_remote, restart_remote, get_remote.           *)
(***************************************************************************)
\* _set_defaults(remote): the baseline configuration of worker pid
_set_defaults(ps, pid) ==
    [ps EXCEPT !.procs[pid].configured = TRUE]

\* QtProcess(): spawn a worker, whose ExtendedPlotWindow._windows is empty;
\* RemoteEventHandler.__init__ registers its handler
QtProcess(ps) ==
    [ps EXCEPT !.procs    = Append(ps.procs, [alive |-> TRUE, configured |-> FALSE,
                                                  windows |-> << >>]),
               !.handlers = ps.handlers \cup {Len(ps.procs) + 1}]

start_remote(ps) ==
    LET p1  == QtProcess(ps)
        pid == Len(p1.procs)
    IN  _set_defaults([p1 EXCEPT !.rpg = pid], pid)

\* Process.join() on every registered handler: a worker still alive is closed
join_all(ps) ==
    [ps EXCEPT !.procs = [p \in DOMAIN ps.procs |->
                            IF p \in ps.handlers
                            THEN [ps.procs[p] EXCEPT !.alive = FALSE]
                            ELSE ps.procs[p]]]

restart_remote(ps) ==
    IF ps.handlers = {} THEN start_remote(ps)
    ELSE start_remote([join_all(ps) EXCEPT !.handlers = {}])

get_remote == rpg

ProcState == [rpg |-> rpg, handlers |-> handlers, procs |-> procs]

\* __init__ without the is_alive check: a worker is started only when none ever was
ensure_remote_no_alive_check(ps) ==
    IF ps.rpg = 0 THEN start_remote(ps) ELSE ps

\* the two checks at the head of RPGWrappedBase.__init__
ensure_remote(ps) ==
    LET p1 == IF ps.rpg = 0 THEN start_remote(ps) ELSE ps
    IN  IF ~p1.procs[p1.rpg].alive THEN restart_remote(p1) ELSE p1

\* number of workers ensure_remote spawns from process state ps
Spawns(ps) == Len(ensure_remote(ps).procs) - Len(ps.procs)

\* RPGWrappedBase.__init__ and the subclass constructors, run on instance self
\* with r the remote instance the constructor created
__init__(self, r) ==
    [self EXCEPT !.inits = @ + 1, !.via = "init", !.rid = r, !.items = << >>,
                 !.parent = 0, !.rf = init_cache(self.cls),
                 !.rfo = init_options(self.cls)]

(***************************************************************************)
(* The request channel: the controller writes requests to one end of the   *)
(* pipe the Process constructor creates, the worker's event handler reads  *)
(* them from the other end.                                                *)
(***************************************************************************)
\* a method call on remote object r, blocking ("sync") or fire-and-forget ("off")
Request(r, name, mode) ==
    [obj |-> r, proc |-> robjs[r].proc, name |-> name, mode |-> mode,
     id |-> Len(issued) + 1]

RECURSIVE Reverse(_)
Reverse(q) == IF q = << >> THEN q ELSE Append(Reverse(Tail(q)), Head(q))

\* a request pump that handles the newest request it reads first
processRequests_newest_first(q) == Reverse(q)

\* RemoteQtEventHandler.processRequests on the requests q it reads from the
\* pipe: the requests in the order in which it handles them
processRequests(q) == q

(***************************************************************************)
(* Observation of the last operation.                                      *)
(***************************************************************************)
NoLast ==
    [op |-> "", cls |-> "", obj |-> 0, name |-> "", loc |-> "", arg |-> None,
     res |-> None, err |-> "", rpg0 |-> 0, alive0 |-> FALSE, nobjs0 |-> 0,
     nrobjs0 |-> 0, hit |-> FALSE, fetched |-> FALSE]

\* no Register and no DigitalGate has been constructed
\* no Register has been created yet.  The fields forced, changed and committed
\* are history: mark_dirty was called since the last commit, a field value
\* was changed since the last commit, commit was called at least once.
NoRegister ==
    [made |-> FALSE, require_sync |-> FALSE, fields |-> << >>,
     _committed_val |-> << >>, op |-> "", err |-> "",
     forced |-> FALSE, changed |-> FALSE, committed |-> FALSE]

\* no DigitalGate has been created yet.  The fields set_mode and voltage0 are
\* history: the mode of the last io_mode set that returned normally ("" if
\* there was none), and the source voltage before the last operation.
NoGate ==
    [made |-> FALSE, io_mode |-> "UNDEF", lock |-> FALSE, _state |-> "UNDEF",
     v_high |-> 0, v_low |-> 0, voltage |-> 0, op |-> "", err |-> "",
     set_mode |-> "", voltage0 |-> 0]

\* no Feedback has been created yet.  start_val is << >> for None and <<v>>
\* for the value v; pc is "loop" while a call of feedback() is inside its
\* while loop, with start_v, curr_v and meas the locals of that call.  The
\* fields active0, start_val0 and gate0 are history: active, start_val and
\* the gate value before the last call; at_start is the gate value at the
\* last start() that returned normally.
NoFeedback ==
    [made |-> FALSE, step |-> 0, max_d |-> 0, active |-> FALSE,
     start_val |-> << >>, gate |-> 0, pc |-> "idle", once |-> FALSE,
     start_v |-> 0, curr_v |-> 0, meas |-> 0, op |-> "", err |-> "",
     active0 |-> FALSE, start_val0 |-> << >>, gate0 |-> 0, at_start |-> 0]

\* the relays of an MDAC channel, all open, and its voltage
AllOpen ==
    [gnd |-> FALSE, smc |-> FALSE, bus |-> FALSE, dac_output |-> FALSE,
     voltage |-> 0]

\* no MDAC channel has been wrapped yet.  relays is the channel (TRUE: the
\* relay is closed); before, target, log and trace are history of the last
\* set_state: the channel before it, its argument, the operations it sent to
\* the channel and the channel after each of them; read is the result of the
\* last get_state and fresh says that set_state was the call before it.
NoChannel ==
    [made |-> FALSE, wrapper |-> "", relays |-> AllOpen, before |-> AllOpen,
     target |-> "", log |-> << >>, trace |-> << >>, read |-> "",
     fresh |-> FALSE, op |-> ""]

\* no sweep has been run yet: there is no worker and no plot window, and
\* this.current is None.  worker is "none", "up" or "dead"; w_run_id is the
\* run_id attribute of the last window of the worker (0: it has none);
\* current is "None", "nowin" (a LivePlotWindow without a plot window), "win"
\* (one around the window of the running sweep) or "stale" (one around a
\* window of a worker that died).  A run id of 0 is None.  The fields
\* outcome, attempts, save_failed, aborted, sub and outside are history: how
\* the sweep function ended, the calls of save_figure of the last sweep and
\* whether one failed, whether the finally block was left by an exception,
\* what the last call of subscriber returned and whether it was called
\* outside a wrapped sweep.
NoSweep ==
    [pc |-> "idle", impl |-> "", save |-> FALSE, has_win |-> FALSE,
     worker |-> "none", w_run_id |-> 0, current |-> "None", next_id |-> 1,
     started |-> 0, ret |-> 0, exc |-> "", op |-> "", outcome |-> "",
     attempts |-> 0, save_failed |-> FALSE, aborted |-> FALSE, sub |-> "",
     outside |-> FALSE]

\* no worker with a Qt event loop has been started yet.  to_wrk holds the
\* requests written by the controller and not yet read by the worker ("req"
\* or "close"), to_ctl counts the requests written by the worker and not yet
\* read by the controller.  The fields ctl_seen, wrk_seen, ctl_at_seen and
\* wrk_at_seen are history: the pump of that side has run into the closed
\* channel, and the number of requests it had processed when it did.
NoPumps ==
    [made |-> FALSE, ctl_alive |-> FALSE, ctl_timer |-> FALSE,
     ctl_exited |-> FALSE, ctl_done |-> 0, to_ctl |-> 0,
     wrk_alive |-> FALSE, wrk_timer |-> FALSE, wrk_exited |-> FALSE,
     wrk_app |-> FALSE, wrk_done |-> 0, to_wrk |-> << >>, sent |-> 0,
     ctl_seen |-> FALSE, wrk_seen |-> FALSE, ctl_at_seen |-> 0,
     wrk_at_seen |-> 0, op |-> ""]

Init ==
    /\ rpg = 0
    /\ handlers = {}
    /\ procs = << >>
    /\ robjs = << >>
    /\ objs = << >>
    /\ subclass_types = [built |-> FALSE, map |-> EmptyDict]
    /\ callables = << >>
    /\ conn = << >>
    /\ issued = << >>
    /\ handled = << >>
    /\ last = NoLast
    /\ register = NoRegister
    /\ digital_gate = NoGate
    /\ fbk = NoFeedback
    /\ mdac_chan = NoChannel
    /\ sweep = NoSweep
    /\ pumps = NoPumps

\* a closeEvent that leaves the list of windows as it is
closeEvent_keeps(ws, r) == ws

\* ExtendedPlotWindow.closeEvent, "self._windows.remove(self)", on the list ws
\* for window r: the first occurrence is removed; remove raises and leaves
\* the list as it is when r is not in it
closeEvent(ws, r) ==
    LET at == {i \in 1..Len(ws) : ws[i] = r} IN
    IF at = {} THEN ws
    ELSE LET i == CHOOSE i \in at : \A j \in at : i <= j
         IN  SubSeq(ws, 1, i - 1) \o SubSeq(ws, i + 1, Len(ws))

\* ExtendedPlotWindow.__init__, "self._windows.append(self)", for new window r
ExtendedPlotWindow_init(ws, r) == Append(ws, r)

\* cls(*args): direct construction through RPGWrappedBase.__init__
Construct(cls) ==
    LET ps == ensure_remote(ProcState) IN
    /\ Len(procs) + Spawns(ProcState) <= MaxProcs
    /\ Len(objs) < MaxObjs
    /\ Len(robjs) < MaxRObjs
    /\ rpg' = ps.rpg
    /\ handlers' = ps.handlers
    /\ procs' = IF _base(cls) = "ExtendedPlotWindow"
                THEN [ps.procs EXCEPT ![ps.rpg].windows =
                                          ExtendedPlotWindow_init(@, Len(robjs) + 1)]
                ELSE ps.procs
    /\ IF _base(cls) # ""
       THEN /\ robjs' = Append(robjs, [cname |-> _base(cls), proc |-> ps.rpg,
                                       elems |-> << >>, closed |-> FALSE])
            /\ objs' = Append(objs, __init__(__new__(cls), Len(robjs) + 1))
            /\ last' = [NoLast EXCEPT !.op = "construct", !.cls = cls,
                                      !.res = Obj(Len(objs) + 1),
                                      !.rpg0 = rpg,
                                      !.alive0 = (rpg # 0 /\ procs[rpg].alive),
                                      !.nobjs0 = Len(objs), !.nrobjs0 = Len(robjs)]
       ELSE /\ UNCHANGED <<robjs, objs>>
            /\ last' = [NoLast EXCEPT !.op = "construct", !.cls = cls,
                                      !.err = "TypeError",
                                      !.rpg0 = rpg,
                                      !.alive0 = (rpg # 0 /\ procs[rpg].alive),
                                      !.nobjs0 = Len(objs), !.nrobjs0 = Len(robjs)]
    /\ conn' = IF ps.rpg # rpg \/ _base(cls) # "" THEN << >> ELSE conn
    /\ handled' = IF ps.rpg = rpg /\ _base(cls) # ""
                  THEN handled \o processRequests(conn) ELSE handled
    /\ UNCHANGED device_vars
    /\ UNCHANGED <<subclass_types, callables, issued>>

(***************************************************************************)
(* Objects the worker creates on its own, references the transport returns *)
(* and RPGWrappedBase.autowrap applied to a value.                         *)
(***************************************************************************)
\* runtime types of objects made inside the worker (data traces, view boxes,
\* Qt table cells, lists of items)
RemoteTypes == {"ExtendedPlotDataItem", "CustomViewBox", "QTableWidgetItem", "list"}

\* the types of the objects made in the worker beside the wrapping of references
WrapTypes == {"ExtendedPlotDataItem", "CustomViewBox", "QTableWidgetItem", "list"}

LiveRemote == rpg # 0 /\ procs[rpg].alive

\* what a remote list holds in the model: nothing, or one existing remote object
ElemSeqs == {<< >>} \cup {<<a>> : a \in DOMAIN robjs}

\* the worker creates an object of type cname (ExtendedPlotItem.plot,
\* addLegend, the view box of a plot item, listItems)
RemoteMake(cname, elems) ==
    /\ LiveRemote
    /\ Len(robjs) < MaxRObjs
    /\ cname = "list" \/ elems = << >>
    /\ \A i \in 1..Len(elems) : robjs[elems[i]].cname # "list"
    /\ robjs' = Append(robjs, [cname |-> cname, proc |-> rpg, elems |-> elems,
                               closed |-> FALSE])
    /\ last' = [NoLast EXCEPT !.op = "remote_make", !.name = cname,
                              !.nobjs0 = Len(objs), !.nrobjs0 = Len(robjs)]
    /\ UNCHANGED device_vars
    /\ UNCHANGED <<rpg, handlers, procs, objs, subclass_types, callables,
                   conn, issued, handled>>

\* a remote call made with _returnType="proxy" returns a bare ObjectProxy for r
FetchRef(r) ==
    /\ r \in DOMAIN robjs
    /\ procs[robjs[r].proc].alive
    /\ Len(objs) < MaxObjs
    /\ objs' = Append(objs, NewProxy(r))
    /\ last' = [NoLast EXCEPT !.op = "fetch", !.res = Obj(Len(objs) + 1),
                              !.nobjs0 = Len(objs), !.nrobjs0 = Len(robjs)]
    /\ UNCHANGED device_vars
    /\ UNCHANGED <<rpg, handlers, procs, robjs, subclass_types, callables,
                   conn, issued, handled>>

\* the values autowrap is applied to
Values ==
    {None, Plain(1)} \cup {Obj(i) : i \in DOMAIN objs}
                     \cup {Tuple(<<Obj(i)>>) : i \in DOMAIN objs}

\* RPGWrappedBase.autowrap(inst)
Autowrap(inst) ==
    LET st == populate(subclass_types)
        r  == autowrap(objs, st.map, inst)
    IN  /\ inst \in Values
        /\ Len(r.objs) <= MaxObjs
        /\ subclass_types' = st
        /\ objs' = r.objs
        /\ last' = [NoLast EXCEPT !.op = "autowrap", !.arg = inst, !.res = r.res,
                                  !.nobjs0 = Len(objs), !.nrobjs0 = Len(robjs)]
        /\ UNCHANGED device_vars
        /\ UNCHANGED <<rpg, handlers, procs, robjs, callables,
                       conn, issued, handled>>

\* the classes constructed directly beside the wrapping of references
WrapClasses == {"PlotItem"}

NextWrap ==
    \/ \E cls \in WrapClasses : Construct(cls)
    \/ \E cname \in WrapTypes, elems \in ElemSeqs : RemoteMake(cname, elems)
    \/ \E r \in DOMAIN robjs : FetchRef(r)
    \/ \E inst \in Values : Autowrap(inst)

SpecWrap == Init /\ [][NextWrap]_vars

(***************************************************************************)
(* Properties of autowrap, wrap and construction.                          *)
(***************************************************************************)
\* the remote object a local proxy or wrapper refers to
RemoteOf(i) == robjs[objs[i].rid]

\* C8: autowrap applied to the result of autowrap returns that very value and
\* makes no further wrapper; an already wrapped object and a value that is
\* not a remote reference are returned unchanged.
AutowrapIdempotent ==
    last.op = "autowrap" =>
        LET again == autowrap(objs, subclass_types.map, last.res) IN
        /\ again.res = last.res
        /\ again.objs = objs
        /\ (~IsObjectProxy(last.arg) \/ IsRPGWrapped(objs, last.arg))
              => (last.res = last.arg /\ Len(objs) = last.nobjs0)

\* autowrap has been applied to a wrapper that an earlier autowrap made
AutowrapAppliedTwice ==
    /\ last.op = "autowrap"
    /\ IsRPGWrapped(objs, last.arg)
    /\ objs[last.arg.id].via = "wrap"
    /\ last.res = last.arg

MadeBy == {i \in DOMAIN objs : i > last.nobjs0 /\ objs[i].cls # "ObjectProxy"}

\* C10: direct construction creates one new remote instance and never runs
\* __wrap__; wrapping an existing reference runs __wrap__ exactly once, never
\* runs __init__ and creates no remote instance.
ConstructionPaths ==
    /\ (last.op = "construct" /\ last.err = "")
          => /\ Len(robjs) = last.nrobjs0 + 1
             /\ MadeBy = {last.res.id}
             /\ objs[last.res.id].rid = Len(robjs)
             /\ objs[last.res.id].inits = 1
             /\ objs[last.res.id].wraps = 0
    /\ last.op = "autowrap"
          => /\ Len(robjs) = last.nrobjs0
             /\ \A i \in MadeBy : objs[i].wraps = 1 /\ objs[i].inits = 0
    /\ \A i \in DOMAIN objs :
          objs[i].cls # "ObjectProxy" => objs[i].inits + objs[i].wraps = 1

\* both paths have been taken: a directly constructed wrapper exists and the
\* last operation wrapped an existing reference
BothPathsTaken ==
    /\ last.op = "autowrap"
    /\ MadeBy # {}
    /\ \E i \in DOMAIN objs : objs[i].via = "init"

(***************************************************************************)
(* Ownership bookkeeping of plot/pyplot.py: wrap_adders and _notify_added. *)
(***************************************************************************)
\* a == b on two ObjectProxy instances of heap h: the same instance, or the
\* comparison the proxy forwards to the worker, true for the same remote object
proxy_eq(h, a, b) == a = b \/ h[a].rid = h[b].rid

\* x in lst, for a list of ObjectProxy instances
py_in(h, x, lst) == \E i \in 1..Len(lst) : proxy_eq(h, lst[i], x)

\* lst.count(x)
py_count(h, x, lst) == Cardinality({i \in 1..Len(lst) : proxy_eq(h, lst[i], x)})

\* RPGWrappedBase._notify_added(self, parent) on heap h
_notify_added(h, self, parent) == [h EXCEPT ![self].parent = parent]

\* an adder that takes what the remote call returned, whatever it is
added_item_as_returned(fres, args) == fres

\* "if res is None: if len(args) > 0: res = args[0]": the item an adder call
\* added, from what the remote call returned and the positional arguments
added_item(fres, args) ==
    IF fres = None /\ Len(args) > 0 THEN args[1] ELSE fres

\* wrap_adders that appends the result without looking for it in _items
wrap_adders_always_appends(h, reg, self, fres, args) ==
    LET res0 == added_item(fres, args) IN
    IF res0 = None /\ fres = None /\ Len(args) = 0 THEN [objs |-> h, res |-> None]
    ELSE LET a   == autowrap(h, reg, res0)
             res == a.res
             h1  == IF IsObjectProxy(res)
                    THEN [a.objs EXCEPT ![self].items = Append(@, res.id)]
                    ELSE a.objs
             h2  == IF IsRPGWrapped(h1, res)
                    THEN _notify_added(h1, res.id, self)
                    ELSE h1
         IN  [objs |-> h2, res |-> res]

\* the function save returned by RPGWrappedBase.wrap_adders(self, f), called
\* with args when the remote f returned fres: [objs, res]
wrap_adders(h, reg, self, fres, args) ==
    LET res0 == added_item(fres, args) IN
    IF res0 = None /\ fres = None /\ Len(args) = 0 THEN [objs |-> h, res |-> None]
    ELSE LET a   == autowrap(h, reg, res0)
             res == a.res
             h1  == IF IsObjectProxy(res) /\ ~py_in(a.objs, res.id, a.objs[self].items)
                    THEN [a.objs EXCEPT ![self].items = Append(@, res.id)]
                    ELSE a.objs
             h2  == IF IsRPGWrapped(h1, res)
                    THEN _notify_added(h1, res.id, self)
                    ELSE h1
         IN  [objs |-> h2, res |-> res]

\* what the remote adder returns: None, a value, or a reference to a remote object
AdderReturns == {"none", "value", "ref"}

\* positional arguments of an adder call: none, plain data, or a local object
AdderArgs == {<< >>, <<Plain(1)>>} \cup {<<Obj(c)>> : c \in DOMAIN objs}

\* the wrapper classes whose remote type has methods named add...: the
\* layout widget of a window and the plot item
Containers == {"BasePlotWindow", "PlotWindow", "BasePlotItem", "PlotItem"}

\* self.addXxx(*args) resolved by __getattr__ and intercepted by wrap_adders;
\* the remote method returns nothing, a value, or a reference to remote object r
AdderCall(self, ret, r, args) ==
    LET h0   == IF ret = "ref" THEN Append(objs, NewProxy(r)) ELSE objs
        fres == CASE ret = "none"  -> None
                  [] ret = "value" -> Plain(2)
                  [] ret = "ref"   -> Obj(Len(h0))
        st   == populate(subclass_types)
        out  == wrap_adders(h0, st.map, self, fres, args)
        req  == Request(objs[self].rid, "add", "sync")
    IN  /\ self \in DOMAIN objs
        /\ objs[self].cls \in Containers
        /\ procs[robjs[objs[self].rid].proc].alive
        /\ args \in AdderArgs
        /\ ret = "ref" => (r \in DOMAIN robjs /\ robjs[r].proc = robjs[objs[self].rid].proc)
        /\ ret # "ref" => r = 0
        /\ Len(out.objs) <= MaxObjs
        /\ Len(issued) < MaxCalls
        /\ issued' = Append(issued, req)
        /\ handled' = handled \o processRequests(Append(conn, req))
        /\ conn' = << >>
        /\ subclass_types' = st
        /\ objs' = out.objs
        /\ last' = [NoLast EXCEPT !.op = "add", !.obj = self, !.res = out.res,
                                  !.name = ret,
                                  !.arg = IF args = << >> THEN None ELSE args[1],
                                  !.hit = (IsObjectProxy(out.res) /\ out.res.id <= Len(objs)
                                           /\ py_in(objs, out.res.id, objs[self].items)),
                                  !.nobjs0 = Len(objs), !.nrobjs0 = Len(robjs)]
        /\ UNCHANGED device_vars
        /\ UNCHANGED <<rpg, handlers, procs, robjs, callables>>

\* the classes constructed in the ownership model: containers and a trace
OwnClasses == {"PlotItem", "ExtendedPlotDataItem"}

NextOwn ==
    \/ \E cls \in OwnClasses : Construct(cls)
    \/ RemoteMake("CustomViewBox", << >>)
    \/ \E self \in DOMAIN objs, ret \in AdderReturns, r \in {0} \cup DOMAIN robjs,
          args \in AdderArgs : AdderCall(self, ret, r, args)

SpecOwn == Init /\ [][NextOwn]_vars

Owners(c) ==
    {p \in DOMAIN objs : p # c /\ \E i \in 1..Len(objs[p].items) : objs[p].items[i] = c}

\* C2: a wrapped object is in the owned items of at most one other wrapped
\* object; adding it to a second container leaves it owned by that one only.
SingleOwner ==
    \A c \in DOMAIN objs : objs[c].cls # "ObjectProxy" => Cardinality(Owners(c)) <= 1

\* C14: an adder call whose remote call returned nothing and that was given
\* no positional argument raises an error to the caller.
AdderWithoutItemRaises ==
    (last.op = "add" /\ last.name = "none" /\ last.arg = None) => last.err # ""

AttrNames ==
    {"setData", "update", "xData", "addItem", "getViewBox", "_typeStr",
     "_repr_html_", "nosuch", "menu"}

\* re.match("_repr_.*_", name) or re.match("_ipython_.*_", name)
IsIPythonName(name) == name \in {"_repr_html_"}

\* name.startswith("add") and name.startswith("get")
startswith_add(name) == name \in {"addItem"}
startswith_get(name) == name \in {"getViewBox"}

\* cls.__dict__[name] for the names read and written in the model: a function,
\* a property, a plain class attribute ("field"), or "" when the class body
\* does not define the name
ClassDict(cls, name) ==
    CASE cls = "PlotDataItem" /\ name = "update"                 -> "function"
      [] cls = "PlotDataItem" /\ name \in {"xData", "yData"}     -> "property"
      [] cls = "RPGWrappedBase" /\ name = "_remote_functions"    -> "field"
      [] cls = "ExtendedPlotDataItem" /\ name \in {"update", "setData"} -> "function"
      [] cls = "ExtendedPlotDataItem" /\ name = "xData"          -> "property"
      [] cls \in {"ImageItem", "ImageItemWithHistogram"} /\ name = "update" -> "function"
      [] OTHER                                                   -> ""

\* the names in self._base_inst.__dict__, the instance fields of an ObjectProxy
ProxyFields == {"_typeStr"}

\* values that live in the controller: a function or property object of a
\* class body, the bound method a plain attribute read makes of a function
LocalValue(kind) == [k |-> kind, id |-> 0, elems |-> << >>]

\* a callable object callables[i]
Fn(i) == [k |-> "fn", id |-> i, elems |-> << >>]

\* what the class hierarchy of cls defines under name: the kind of the entry
\* of the first class body of the mro that has one, "" when none has
ClassAttr(cls, name) ==
    LET m   == mro(cls)
        def == {i \in 1..Len(m) : ClassDict(m[i], name) # ""}
    IN  IF def = {} THEN ""
        ELSE ClassDict(m[CHOOSE i \in def : \A j \in def : i <= j], name)

\* a local search that looks at the instance fields of _base_inst only
local_lookup_fields_only(cls, name) ==
    IF name \in ProxyFields THEN Plain(1) ELSE None

\* the local search of __getattr__: the first class of the mro that defines
\* name, else the instance fields of _base_inst, else None
local_lookup(cls, name) ==
    LET m   == mro(cls)
        def == {i \in 1..Len(m) : ClassDict(m[i], name) # ""}
    IN  IF def # {}
        THEN LocalValue(ClassDict(m[CHOOSE i \in def : \A j \in def : i <= j], name))
        ELSE IF name \in ProxyFields THEN Plain(1) ELSE None

\* what the remote object of type cname has under name: a bound method, a
\* plain value, the value None ("none"), or "" when it has no such attribute
RemoteAttr(cname, name) ==
    CASE name \in {"update", "isVisible"}                             -> "method"
      [] name = "menu" /\ cname = "ExtendedPlotDataItem"              -> "none"
      [] name \in {"setData", "getViewBox"}
         /\ cname \notin {"GraphicsLayoutWidget", "ExtendedPlotWindow"}  -> "method"
      [] name = "addItem" /\ cname \in {"PlotItem", "ExtendedPlotItem"} -> "method"
      [] name = "xData" /\ cname \in {"PlotDataItem", "ExtendedPlotDataItem"} -> "value"
      [] OTHER                                                        -> ""

\* callable(attr) for a value found by the local search
py_callable(v) == v.k \in {"function", "fn"}

\* a callable object __getattr__ returns: the closure wrap_getters ("getter")
\* or wrap_adders ("adder") makes around attr, with what it closes over: the
\* ObjectProxy of the bound method name of remote object rid and the proxy
\* options set on it, or a local function (rid = 0)
Callable(kind, name, rid) ==
    [kind |-> kind, name |-> name, rid |-> rid, sync |-> "sync", nopts |-> 0]

\* attr._setProxyOptions(callSync='off') on the proxy callable c closes over
_setProxyOptions(c) == [c EXCEPT !.sync = "off", !.nopts = @ + 1]

\* a cache lookup that never finds the name
cached_never(o, name) == 0

\* "if name in self._remote_functions: return self._remote_functions[name]":
\* the cached callable of object record o under name, 0 when there is none
cached(o, name) == IF name \in DOMAIN o.rf THEN o.rf[name] ELSE 0

\* RPGWrappedBase.__getattr__(self, name, _location=loc) in heap h with the
\* callables cs: [objs, callables, res, err, fetched], fetched when the
\* attribute was looked up on the remote object
__getattr__(h, cs, self, name, loc) ==
    LET o      == h[self]
        ro     == robjs[o.rid]
        n      == Len(cs)
        out(h1, cs1, res, err, f) ==
            [objs |-> h1, callables |-> cs1, res |-> res, err |-> err, fetched |-> f]
        lattr  == IF loc \in {"local", "both"} THEN local_lookup(o.cls, name) ELSE None
        remote == loc \in {"remote", "both"} /\ lattr = None
        rid    == IF remote THEN o.rid ELSE 0
        save   == Callable("adder", name, rid)
        wrapg  == Callable("getter", name, rid)
    IN
    IF IsIPythonName(name) THEN out(h, cs, None, "AttributeError", FALSE)
    ELSE IF remote /\ cached(o, name) # 0
    THEN out(h, cs, Fn(cached(o, name)), "", FALSE)
    ELSE IF remote /\ ~procs[ro.proc].alive
    THEN out(h, cs, None, "ClosedError", FALSE)
    ELSE IF remote /\ RemoteAttr(ro.cname, name) = ""
    THEN out(h, cs, None, "AttributeError", TRUE)
    ELSE IF remote /\ RemoteAttr(ro.cname, name) = "value"
    THEN out(h, cs, Plain(2), "", TRUE)
    \* the remote attribute is None: "if attr is None: raise AttributeError"
    ELSE IF remote /\ RemoteAttr(ro.cname, name) = "none"
    THEN out(h, cs, None, "AttributeError", TRUE)
    ELSE IF lattr = None /\ ~remote THEN out(h, cs, None, "AttributeError", FALSE)
    ELSE IF ~remote /\ ~py_callable(lattr) THEN out(h, cs, lattr, "", FALSE)
    \* attr is a local function or the proxy of a remote bound method, which
    \* autowrap leaves as it is
    ELSE IF startswith_add(name) THEN out(h, Append(cs, save), Fn(n + 1), "", remote)
    ELSE IF startswith_get(name) THEN out(h, Append(cs, wrapg), Fn(n + 1), "", remote)
    ELSE IF name \in o.rfo
    THEN IF remote
         THEN out([h EXCEPT ![self].rf = DictSet(@, name, n + 1)],
                  Append(cs, _setProxyOptions(wrapg)), Fn(n + 1), "", TRUE)
         \* a function object has no _setProxyOptions
         ELSE out(h, cs, None, "AttributeError", FALSE)
    ELSE out(h, Append(cs, wrapg), Fn(n + 1), "", remote)

\* the callables of cs a call cache of heap h still refers to: a callable
\* __getattr__ returned without storing it is dropped with its last reference
live(h, cs) ==
    LET refs == {h[w].rf[nm] : <<w, nm>> \in {<<w, nm>> \in (DOMAIN h) \X AttrNames :
                                                nm \in DOMAIN h[w].rf}}
        top  == IF refs = {} THEN 0 ELSE CHOOSE i \in refs : \A j \in refs : j <= i
    IN  SubSeq(cs, 1, top)

\* the wrapped objects
Wrapped == {w \in DOMAIN objs : objs[w].cls # "ObjectProxy"}

\* the values of _location the layer passes: its methods ask the remote, the
\* attribute fallback of the interpreter passes none, which is both
Locations == {"remote", "both"}

\* self.__getattr__(name, _location=loc), called as the methods of the layer
\* call it; a remote lookup is a blocking round trip, which the worker answers
\* after the requests written before it
GetAttr(w, name, loc) ==
    LET out == __getattr__(objs, live(objs, callables), w, name, loc) IN
    /\ w \in Wrapped
    /\ Len(out.callables) <= MaxFuncs
    /\ objs' = out.objs
    /\ callables' = out.callables
    /\ conn' = IF out.fetched THEN << >> ELSE conn
    /\ handled' = IF out.fetched THEN handled \o processRequests(conn) ELSE handled
    /\ last' = [NoLast EXCEPT !.op = "getattr", !.obj = w, !.name = name, !.loc = loc,
                              !.res = out.res, !.err = out.err,
                              !.hit = (name \in DOMAIN objs[w].rf),
                              !.fetched = out.fetched]
    /\ UNCHANGED device_vars
    /\ UNCHANGED <<rpg, handlers, procs, robjs, subclass_types, issued>>

\* the attribute read self.name: a name the class hierarchy defines is found by
\* the normal lookup (a function gives a bound method, the property xData runs
\* its getter, which asks the remote), any other name goes to __getattr__
ReadAttr(w, name) ==
    LET def == IF w \in Wrapped THEN local_lookup(objs[w].cls, name) ELSE None
        out == IF def.k # "property" /\ name \in DOMAIN objs[w].attrs
               \* the instance dict comes before everything but a property
               THEN [objs |-> objs, callables |-> live(objs, callables),
                     res |-> Plain(objs[w].attrs[name]), err |-> "", fetched |-> FALSE]
               ELSE IF def.k = "function"
               THEN [objs |-> objs, callables |-> live(objs, callables),
                     res |-> LocalValue("method"), err |-> "", fetched |-> FALSE]
               ELSE IF def.k = "property"
               THEN __getattr__(objs, live(objs, callables), w, name, "remote")
               ELSE __getattr__(objs, live(objs, callables), w, name, "both")
    IN
    /\ w \in Wrapped
    /\ Len(out.callables) <= MaxFuncs
    /\ objs' = out.objs
    /\ callables' = out.callables
    /\ conn' = IF out.fetched THEN << >> ELSE conn
    /\ handled' = IF out.fetched THEN handled \o processRequests(conn) ELSE handled
    /\ last' = [NoLast EXCEPT !.op = "read", !.obj = w, !.name = name, !.loc = "both",
                              !.res = out.res, !.err = out.err,
                              !.hit = (name \in DOMAIN objs[w].rf),
                              !.fetched = out.fetched]
    /\ UNCHANGED device_vars
    /\ UNCHANGED <<rpg, handlers, procs, robjs, subclass_types, issued>>

\* self._remote_function_options[name] = {'callSync': 'off'}, as the tail of the
\* constructor of a wrapper class declares it for the object just constructed
DeclareOption(w, name) ==
    /\ last.op = "construct"
    /\ last.res = Obj(w)
    /\ name \notin objs[w].rfo
    /\ objs' = [objs EXCEPT ![w].rfo = @ \cup {name}]
    /\ last' = [NoLast EXCEPT !.op = "declare", !.obj = w, !.name = name]
    /\ UNCHANGED device_vars
    /\ UNCHANGED <<rpg, handlers, procs, robjs, subclass_types, callables,
                   conn, issued, handled>>

\* the classes constructed in the cache model
CacheClasses == {"PlotDataItem", "ExtendedPlotDataItem", "PlotItem"}

\* the names a wrapper class may declare a fire-and-forget option for
OptionNames == {"addItem", "getViewBox"}

NextCache ==
    \/ \E cls \in CacheClasses : Len(objs) < MaxCached /\ Construct(cls)
    \/ \E w \in DOMAIN objs, name \in OptionNames : DeclareOption(w, name)
    \/ \E w \in DOMAIN objs, name \in AttrNames : ReadAttr(w, name)
    \/ \E w \in DOMAIN objs, name \in AttrNames, loc \in Locations : GetAttr(w, name, loc)

SpecCache == Init /\ [][NextCache]_vars

(***************************************************************************)
(* Method calls through the layer, the worker's request pump, the death of *)
(* a worker and the class-level queries.                                   *)
(***************************************************************************)
\* the resolution the call self.name(...) makes: a method the class defines
\* for a cached name asks the remote (ExtendedPlotDataItem.update, setData),
\* PlotDataItem.update calls self.setData, any other name goes to __getattr__
resolve_call(h, cs, w, name) ==
    LET def == local_lookup(h[w].cls, name) IN
    IF def.k = "function" /\ h[w].cls = "PlotDataItem" /\ name = "update"
    THEN __getattr__(h, cs, w, "setData", "both")
    ELSE IF def.k = "function" THEN __getattr__(h, cs, w, name, "remote")
    ELSE __getattr__(h, cs, w, name, "both")

\* self.name(...) for a method that returns no object: the resolution, then the
\* request written to the pipe of the proxy's own handler; a blocking call
\* returns when the worker has handled it, a fire-and-forget call at once
MethodCall(w, name) ==
    LET out  == resolve_call(objs, live(objs, callables), w, name)
        c    == out.callables[out.res.id]
        ok   == out.err = "" /\ out.res.k = "fn"
        up   == ok /\ procs[robjs[c.rid].proc].alive
        req  == Request(c.rid, c.name, c.sync)
        conn1    == IF out.fetched THEN << >> ELSE conn
        handled1 == IF out.fetched THEN handled \o processRequests(conn) ELSE handled
    IN
    /\ w \in Wrapped
    /\ Len(out.callables) <= MaxFuncs
    /\ Len(issued) < MaxCalls
    /\ ok => c.kind = "getter" /\ c.rid # 0
    /\ objs' = out.objs
    /\ callables' = out.callables
    /\ issued' = IF up THEN Append(issued, req) ELSE issued
    /\ conn' = IF up /\ c.sync = "off" THEN Append(conn1, req)
               ELSE IF up THEN << >> ELSE conn1
    /\ handled' = IF up /\ c.sync = "sync"
                  THEN handled1 \o processRequests(Append(conn1, req))
                  ELSE handled1
    /\ last' = [NoLast EXCEPT !.op = "call", !.obj = w, !.name = name,
                              !.err = IF ok /\ ~up THEN "ClosedError" ELSE out.err,
                              !.hit = (name \in DOMAIN objs[w].rf),
                              !.rpg0 = rpg]
    /\ UNCHANGED device_vars
    /\ UNCHANGED <<rpg, handlers, procs, robjs, subclass_types>>

\* one tick of the worker's timer: processRequests handles what the worker
\* has read from the pipe so far
WorkerProcess ==
    \E k \in 1..Len(conn) :
        /\ rpg # 0
        /\ procs[rpg].alive
        /\ handled' = handled \o processRequests(SubSeq(conn, 1, k))
        /\ conn' = SubSeq(conn, k + 1, Len(conn))
        /\ UNCHANGED device_vars
        /\ UNCHANGED <<rpg, handlers, procs, robjs, objs, subclass_types, callables,
                       issued, last>>

\* the worker process dies: what it has not read from the pipe is lost
WorkerDies ==
    /\ rpg # 0
    /\ procs[rpg].alive
    /\ procs' = [procs EXCEPT ![rpg].alive = FALSE]
    /\ conn' = << >>
    /\ last' = [NoLast EXCEPT !.op = "die", !.rpg0 = rpg]
    /\ UNCHANGED device_vars
    /\ UNCHANGED <<rpg, handlers, robjs, objs, subclass_types, callables,
                   issued, handled>>

\* the class-level queries, which reach the worker through get_remote()
ClassQueries == {"getWindows", "get_remote_list"}

\* the remote ExtendedPlotWindow._windows of worker pid, as remote object ids
_windows(pid) == procs[pid].windows

\* PlotWindow.getWindows() and ColorMap.get_remote_list()
ClassQuery(q) ==
    LET wins == _windows(rpg)
        st   == IF wins = << >> THEN subclass_types ELSE populate(subclass_types)
        out  == autowrap_items(objs, st.map, wins, << >>)
        up   == get_remote # 0 /\ procs[rpg].alive
        win  == up /\ q = "getWindows"
    IN
    /\ q \in ClassQueries
    /\ win => Len(out.objs) <= MaxObjs
    /\ objs' = IF win THEN out.objs ELSE objs
    /\ subclass_types' = IF win THEN st ELSE subclass_types
    /\ conn' = IF up THEN << >> ELSE conn
    /\ handled' = IF up THEN handled \o processRequests(conn) ELSE handled
    /\ last' = [NoLast EXCEPT !.op = "query", !.name = q,
                              !.res = IF win THEN out.res
                                      ELSE IF up THEN Plain(3) ELSE None,
                              \* None has no attribute ExtendedPlotWindow
                              !.err = IF get_remote = 0 THEN "AttributeError"
                                      ELSE IF ~up THEN "ClosedError" ELSE "",
                              !.rpg0 = rpg,
                              !.alive0 = (rpg # 0 /\ procs[rpg].alive),
                              !.nobjs0 = Len(objs), !.nrobjs0 = Len(robjs)]
    /\ UNCHANGED device_vars
    /\ UNCHANGED <<rpg, handlers, procs, robjs, callables, issued>>

\* the classes and the methods of the channel model
ChanClasses == {"PlotDataItem", "ExtendedPlotDataItem"}
ChanNames   == {"setData", "update", "isVisible"}

NextChan ==
    \/ \E cls \in ChanClasses : Construct(cls)
    \/ \E w \in DOMAIN objs, name \in ChanNames : MethodCall(w, name)
    \/ WorkerProcess

SpecChan == Init /\ [][NextChan]_vars

\* the classes and the methods of the lifecycle model
ProcClasses == {"PlotWindow", "ExtendedPlotDataItem"}
ProcNames   == {"setData", "isVisible"}

NextProc ==
    \/ \E cls \in ProcClasses : Construct(cls)
    \/ WorkerDies
    \/ \E w \in DOMAIN objs, name \in ProcNames : MethodCall(w, name)
    \/ \E q \in ClassQueries : ClassQuery(q)

SpecProc == Init /\ [][NextProc]_vars

\* the last resolution asked the remote: it was made with _location="remote",
\* or nothing local carries the name
ReachedRemote ==
    /\ last.op \in {"getattr", "read"}
    /\ last.loc = "remote" \/ local_lookup(objs[last.obj].cls, last.name) = None

\* the last resolution returned the callable the cache holds under the name
ReturnedCached ==
    /\ last.err = ""
    /\ last.name \in DOMAIN objs[last.obj].rf
    /\ last.res = Fn(objs[last.obj].rf[last.name])

\* C6 as stated: every resolution of a name that is in the call cache of the
\* object returns the callable stored there.
CachedResolutionIdentical ==
    (last.op \in {"getattr", "read"} /\ last.hit) => ReturnedCached

\* C6: a resolution that asks the remote for a name in the call cache of the
\* object returns the stored callable, whose fire-and-forget mode was applied
\* once; and no step removes a cache entry, replaces it or changes its mode.
CallCacheStable ==
    /\ [](( ReachedRemote /\ last.hit)
            => /\ ReturnedCached
               /\ callables[objs[last.obj].rf[last.name]].sync = "off"
               /\ callables[objs[last.obj].rf[last.name]].nopts = 1)
    /\ [][\A w \in DOMAIN objs : \A nm \in DOMAIN objs[w].rf :
             /\ nm \in DOMAIN objs'[w].rf
             /\ objs'[w].rf[nm] = objs[w].rf[nm]
             /\ callables'[objs[w].rf[nm]] = callables[objs[w].rf[nm]]]_vars

\* a cached name was resolved again through the remote lookup and the stored
\* callable came back
CachedResolvedAgain ==
    ReachedRemote /\ last.hit /\ ReturnedCached

\* C7: the first access to a remote method with a declared fire-and-forget
\* option, whatever its prefix, applies the option once and stores the callable
\* in the call cache of the object.
DeclaredOptionCached ==
    ( /\ ReachedRemote
      /\ last.err = ""
      /\ last.name \in objs[last.obj].rfo
      /\ RemoteAttr(robjs[objs[last.obj].rid].cname, last.name) = "method" )
    => /\ ReturnedCached
       /\ callables[objs[last.obj].rf[last.name]].sync = "off"
       /\ callables[objs[last.obj].rf[last.name]].nopts = 1

\* the worker process that holds the remote object of wrapped object w: the
\* process of the handler its proxy was created with
ProcOf(w) == robjs[objs[w].rid].proc

FirstUseSpawnsWorker ==
    (last.op \in {"construct", "query"} /\ (last.rpg0 = 0 \/ ~last.alive0))
    => /\ rpg # 0
       /\ procs[rpg].alive
       /\ procs[rpg].configured
       /\ last.err \notin {"AttributeError", "ClosedError"}

SetNames == {"_remote_functions", "update", "xData", "yData", "_typeStr", "opts"}

\* the remote attributes the setter of property name writes through _base_inst,
\* for the class of the mro that defines the property; << >> when the property
\* has no setter
fset(cls, name) ==
    LET m   == mro(cls)
        def == {i \in 1..Len(m) : ClassDict(m[i], name) # ""}
        c   == IF def = {} THEN "" ELSE m[CHOOSE i \in def : \A j \in def : i <= j]
    IN  CASE c = "PlotDataItem" /\ name = "xData"         -> <<"xData">>
          [] c = "ExtendedPlotDataItem" /\ name = "xData" -> <<"xData", "setpoint_x">>
          [] OTHER                                        -> << >>

\* the keys of self.__dict__ of instance o: what __init__ or wrap and __wrap__
\* assign, the fields wrap copies from the ObjectProxy, and the names written
\* to the instance since
instance_dict(o) ==
    {"_remote_functions", "_remote_function_options", "_base_inst"}
        \cup (IF o.via = "wrap" THEN ProxyFields ELSE {})
        \cup DOMAIN o.attrs

\* object.__setattr__(self, name, val) for a name no property handles
store(h, self, name, val) ==
    IF name = "_remote_functions"
    THEN [h EXCEPT ![self].rf = EmptyDict]
    ELSE [h EXCEPT ![self].attrs = DictSet(@, name, val)]

\* a __setattr__ that does not test "name in self.__dict__"
__setattr___class_names_only(h, self, name, val) ==
    LET o    == h[self]
        kind == ClassAttr(o.cls, name)
        out(h1, ws, err) == [objs |-> h1, writes |-> ws, err |-> err]
    IN  IF kind = "property"
        THEN IF fset(o.cls, name) = << >> THEN out(h, << >>, "AttributeError")
             ELSE out(h, fset(o.cls, name), "")
        ELSE IF kind # "" THEN out(store(h, self, name, val), << >>, "")
        ELSE out(h, <<name>>, "")

\* RPGWrappedBase.__setattr__(self, name, val) in heap h: [objs, writes, err],
\* writes the attributes of the remote object a setAttr is sent for
__setattr__(h, self, name, val) ==
    LET o    == h[self]
        kind == ClassAttr(o.cls, name)
        out(h1, ws, err) == [objs |-> h1, writes |-> ws, err |-> err]
    IN  IF kind = "property"
        THEN IF fset(o.cls, name) = << >> THEN out(h, << >>, "AttributeError")
             ELSE out(h, fset(o.cls, name), "")
        ELSE IF kind # "" THEN out(store(h, self, name, val), << >>, "")
        ELSE IF name \in instance_dict(o) THEN out(store(h, self, name, val), << >>, "")
        ELSE out(h, <<name>>, "")

\* the statement self.name = val on wrapped object w; a remote write is a
\* fire-and-forget request, which fails when the worker is dead
SetAttr(w, name) ==
    LET out  == __setattr__(objs, w, name, 3)
        r    == objs[w].rid
        up   == procs[robjs[r].proc].alive
        reqs == [i \in 1..Len(out.writes) |->
                    [Request(r, "__setattr__", "off") EXCEPT !.id = Len(issued) + i]]
        sent == out.writes # << >> /\ up
    IN
    /\ w \in Wrapped
    /\ Len(issued) + Len(out.writes) <= MaxCalls
    /\ objs' = out.objs
    /\ issued' = IF sent THEN issued \o reqs ELSE issued
    /\ conn' = IF sent THEN conn \o reqs ELSE conn
    /\ last' = [NoLast EXCEPT !.op = "setattr", !.obj = w, !.name = name,
                              !.err = IF out.writes # << >> /\ ~up
                                      THEN "ClosedError" ELSE out.err]
    /\ UNCHANGED device_vars
    /\ UNCHANGED <<rpg, handlers, procs, robjs, subclass_types, callables, handled>>

\* the classes constructed in the model of attribute writes
AttrClasses == {"PlotDataItem", "ExtendedPlotDataItem"}

NextAttr ==
    \/ \E cls \in AttrClasses : Len(robjs) < MaxCached /\ Construct(cls)
    \/ \E r \in DOMAIN robjs : FetchRef(r)
    \/ \E i \in DOMAIN objs : Autowrap(Obj(i))
    \/ \E w \in DOMAIN objs, name \in SetNames : SetAttr(w, name)
    \/ WorkerProcess

SpecAttr == Init /\ [][NextAttr]_vars

\* the step is the attribute write self.name = val, completed without error
\* (a tick of the worker keeps last and moves requests to handled)
WriteStep == last'.op = "setattr" /\ last'.err = "" /\ handled' = handled

\* the step sends no request and leaves the pipe as it is
NothingSent == issued' = issued /\ conn' = conn

\* C12 as stated: a write to a name declared on the local class hierarchy or
\* present in the instance dict sends no remote setAttr; a write to any other
\* name is forwarded and leaves the local object unchanged.
WriteLocalOrForwarded ==
    [][WriteStep =>
        LET o == objs[last'.obj] IN
        IF ClassAttr(o.cls, last'.name) # "" \/ last'.name \in instance_dict(o)
        THEN NothingSent
        ELSE /\ Len(issued') = Len(issued) + 1
             /\ objs' = objs /\ callables' = callables]_vars

\* C12: a write to a name the local class hierarchy declares as a method or
\* plain field, or that is in the instance dict, changes the local object
\* only; a write to a property runs its setter, which forwards to the remote
\* object; a write to any other name sends one setAttr to the remote object of
\* the wrapper and leaves every local object and the call caches unchanged.
WriteSplit ==
    [][WriteStep =>
        LET w    == last'.obj
            o    == objs[w]
            nm   == last'.name
            kind == ClassAttr(o.cls, nm)
        IN  IF kind = "property"
            THEN /\ Len(issued') > Len(issued)
                 /\ objs' = objs
            ELSE IF kind # "" \/ nm \in instance_dict(o)
            THEN /\ NothingSent
                 /\ \A v \in DOMAIN objs : v # w => objs'[v] = objs[v]
                 /\ nm \in instance_dict(objs'[w])
            ELSE /\ Len(issued') = Len(issued) + 1
                 /\ issued'[Len(issued')].obj = o.rid
                 /\ issued'[Len(issued')].mode = "off"
                 /\ objs' = objs
                 /\ callables' = callables]_vars

\* a name the ObjectProxy carries was written on a wrapper made by wrap, and a
\* name only the remote object has was written on a wrapper
WrittenBothWays ==
    /\ \E w \in Wrapped : objs[w].via = "wrap" /\ "_typeStr" \in DOMAIN objs[w].attrs
    /\ last.op = "setattr" /\ last.name = "opts" /\ last.err = ""
    /\ issued # << >>

RemoteHasAttr ==
    /\ procs[robjs[objs[last.obj].rid].proc].alive
    /\ RemoteAttr(robjs[objs[last.obj].rid].cname, last.name) # ""

\* C13: a resolution that reaches the remote object for a name the remote
\* object has returns a value, whatever the value of the attribute; the
\* no-such-attribute error is raised only when the name is found nowhere.
RemoteValueReturned ==
    (ReachedRemote /\ ~IsIPythonName(last.name) /\ RemoteHasAttr)
    => last.err = ""

(***************************************************************************)
(* Misuse of the construction protocol.                                    *)
(***************************************************************************)
\* cls.wrap(inst), called directly
Wrap(cls, inst) ==
    LET r == wrap(objs, cls, inst) IN
    /\ inst \in Values
    /\ Len(r.objs) <= MaxObjs
    /\ objs' = r.objs
    /\ last' = [NoLast EXCEPT !.op = "wrap", !.cls = cls, !.arg = inst,
                              !.res = r.res, !.err = r.err,
                              !.nobjs0 = Len(objs), !.nrobjs0 = Len(robjs)]
    /\ UNCHANGED device_vars
    /\ UNCHANGED <<rpg, handlers, procs, robjs, subclass_types, callables,
                   conn, issued, handled>>

\* the classes used: the base class, whose body declares no _base, and two
\* classes that declare one
MisuseClasses == {"RPGWrappedBase", "PlotItem", "PlotDataItem"}

NextMisuse ==
    \/ \E cls \in MisuseClasses : Construct(cls)
    \/ \E r \in DOMAIN robjs : FetchRef(r)
    \/ \E cls \in MisuseClasses, inst \in Values : Wrap(cls, inst)

SpecMisuse == Init /\ [][NextMisuse]_vars

\* C16: wrap of a value that is not a remote reference raises TypeError, wrap
\* through a class that declares no remote type raises, and constructing a
\* class whose body declares no remote type raises TypeError; none of them
\* makes a local or a remote object.
ProtocolMisuseRaises ==
    /\ (last.op = "wrap" /\ ~IsObjectProxy(last.arg))
       => last.err = "TypeError" /\ Len(objs) = last.nobjs0
    /\ (last.op = "wrap" /\ getattr_base(last.cls) = "")
       => last.err # "" /\ Len(objs) = last.nobjs0
    /\ (last.op = "construct" /\ _base(last.cls) = "")
       => /\ last.err = "TypeError"
          /\ Len(objs) = last.nobjs0
          /\ Len(robjs) = last.nrobjs0

(***************************************************************************)
(* Wrapped objects and the remote references they hold.                    *)
(***************************************************************************)
\* C17: no two distinct wrapped objects hold a reference to the same remote
\* object, also after the same remote object was returned and auto-wrapped
\* by several calls.
ExclusiveReference ==
    \A a, b \in Wrapped : a # b => objs[a].rid # objs[b].rid

(***************************************************************************)
(* The list of live windows the worker keeps: ExtendedPlotWindow._windows. *)
(***************************************************************************)
\* Qt delivers a close event to remote window r (the user closes the window,
\* or close() is called on it, also on a window that is closed already)
CloseWindow(r) ==
    LET pid == robjs[r].proc IN
    /\ r \in DOMAIN robjs
    /\ robjs[r].cname = "ExtendedPlotWindow"
    /\ procs[pid].alive
    /\ robjs' = [robjs EXCEPT ![r].closed = TRUE]
    /\ procs' = [procs EXCEPT ![pid].windows = closeEvent(@, r)]
    /\ last' = [NoLast EXCEPT !.op = "close", !.arg = Plain(r),
                              !.err = IF robjs[r].closed THEN "ValueError" ELSE ""]
    /\ UNCHANGED device_vars
    /\ UNCHANGED <<rpg, handlers, objs, subclass_types, callables,
                   conn, issued, handled>>

\* "win = PlotWindow.getWindows()[-1]" of _get_window(append=True), on the
\* list wins of live windows
_get_window(wins) == wins[Len(wins)]

\* the window classes: only PlotWindow creates a remote ExtendedPlotWindow
WinClasses == {"PlotWindow", "BasePlotWindow"}

NextWin ==
    \/ \E cls \in WinClasses : Construct(cls)
    \/ \E r \in DOMAIN robjs : CloseWindow(r)
    \/ \E q \in ClassQueries : ClassQuery(q)
    \/ WorkerDies

SpecWin == Init /\ [][NextWin]_vars

\* the extended plot windows constructed in worker pid and not closed, in
\* the order of their construction
OpenWindows(pid) ==
    SelectSeq([r \in 1..Len(robjs) |-> r],
              LAMBDA r : /\ robjs[r].cname = "ExtendedPlotWindow"
                         /\ robjs[r].proc = pid
                         /\ ~robjs[r].closed)

\* C18: the list of live windows of a worker holds exactly the extended plot
\* windows constructed in it and not closed, each once, in construction order;
\* getWindows returns wrappers of exactly these windows in this order, and
\* "append to the last window" takes the most recently constructed open one.
LiveWindowList ==
    /\ \A pid \in DOMAIN procs : _windows(pid) = OpenWindows(pid)
    /\ (last.op = "query" /\ last.name = "getWindows" /\ last.err = "")
       => [i \in 1..Len(last.res.elems) |-> objs[last.res.elems[i].id].rid]
            = OpenWindows(rpg)
    /\ (rpg # 0 /\ OpenWindows(rpg) # << >>)
       => /\ ~robjs[_get_window(_windows(rpg))].closed
          /\ \A r \in DOMAIN robjs :
                (robjs[r].cname = "ExtendedPlotWindow" /\ robjs[r].proc = rpg
                 /\ ~robjs[r].closed) => r <= _get_window(_windows(rpg))

\* three windows were constructed in one worker and the second one was closed
ClosedWindowLeftList ==
    \E pid \in DOMAIN procs :
        /\ Len(_windows(pid)) = 2
        /\ \E r \in DOMAIN robjs :
              /\ robjs[r].closed /\ robjs[r].proc = pid
              /\ _windows(pid)[1] < r /\ r < _windows(pid)[2]

----------------------------------------------------------------------------
\* Register (device/register.py): a bitfield register that tracks whether its
\* value has been committed to the device.

\* the arguments the register is created with: Register("r", 0, fields,
\* length, require_sync), with fields (name, start_bit, end_bit) that pass
\* the range and overlap checks of __init__
RegisterArgs ==
    [length |-> 8,
     fields |-> << [name |-> "a", start_bit |-> 0, end_bit |-> 1],
                   [name |-> "b", start_bit |-> 2, end_bit |-> 2] >>]

\* Register.__init__: every field starts at value 0 with an exclusive end bit,
\* and _committed_val is None (the empty sequence; <<v>> is the integer v)
Register__init__(require_sync) ==
    /\ ~register.made
    /\ RegisterArgs.length % 8 = 0
    /\ register' =
          [NoRegister EXCEPT
             !.made = TRUE,
             !.require_sync = require_sync,
             !.fields = [i \in DOMAIN RegisterArgs.fields |->
                           [name      |-> RegisterArgs.fields[i].name,
                            start_bit |-> RegisterArgs.fields[i].start_bit,
                            end_bit   |-> RegisterArgs.fields[i].end_bit + 1,
                            value     |-> 0]],
             !.op = "__init__"]
    /\ UNCHANGED <<digital_gate, fbk, mdac_chan, sweep, pumps, plot_vars>>

\* value |= field.value << field.start_bit over the first i fields; the
\* fields do not overlap and hold values within their width, so the bitwise
\* or is a sum
RECURSIVE FieldBits(_, _)
FieldBits(fs, i) ==
    IF i = 0 THEN 0
    ELSE FieldBits(fs, i - 1) + fs[i].value * 2^(fs[i].start_bit)

\* Register.value
value(rg) == FieldBits(rg.fields, Len(rg.fields)) % 2^(RegisterArgs.length)

\* Register.committed_val (a property with a getter only)
committed_val(rg) ==
    IF ~rg.require_sync THEN <<value(rg)>> ELSE rg._committed_val

\* Register.dirty
dirty(rg) ==
    IF ~rg.require_sync THEN FALSE
    ELSE committed_val(rg) = << >> \/ <<value(rg)>> # committed_val(rg)

\* the largest value set_by_field accepts for field i
max_val(rg, i) == 2^(rg.fields[i].end_bit - rg.fields[i].start_bit) - 1

\* Register.set_by_field(name, val) for an integer val >= 0
set_by_field(i, val) ==
    /\ register.made
    /\ register' =
          IF val > max_val(register, i)
          THEN [register EXCEPT !.op = "set_by_field", !.err = "ValueError"]
          ELSE [register EXCEPT
                  !.fields[i].value = val,
                  !.changed = @ \/ val # register.fields[i].value,
                  !.op = "set_by_field", !.err = ""]
    /\ UNCHANGED <<digital_gate, fbk, mdac_chan, sweep, pumps, plot_vars>>

\* Register.commit()
commit ==
    /\ register.made
    /\ register' = [register EXCEPT
                      !._committed_val = <<value(register)>>,
                      !.forced = FALSE, !.changed = FALSE, !.committed = TRUE,
                      !.op = "commit", !.err = ""]
    /\ UNCHANGED <<digital_gate, fbk, mdac_chan, sweep, pumps, plot_vars>>

\* Register.mark_dirty(): "self.committed_val = None" assigns to a property
\* that has no setter, which raises AttributeError and stores nothing
mark_dirty ==
    /\ register.made
    /\ register' = [register EXCEPT
                      !.forced = TRUE,
                      !.op = "mark_dirty", !.err = "AttributeError"]
    /\ UNCHANGED <<digital_gate, fbk, mdac_chan, sweep, pumps, plot_vars>>

NextReg ==
    \/ \E require_sync \in BOOLEAN : Register__init__(require_sync)
    \/ \E i \in DOMAIN register.fields :
          \E val \in 0..(max_val(register, i) + 1) : set_by_field(i, val)
    \/ commit
    \/ mark_dirty

SpecReg == Init /\ [][NextReg]_vars

\* C19: a register that requires sync is dirty from construction until the
\* first commit, clean after a commit until a field value changes, and dirty
\* again from mark_dirty until the next commit; a register that does not
\* require sync is never dirty and mark_dirty does nothing to it.
DirtyFollowsCommits ==
    register.made =>
        IF register.require_sync
        THEN /\ ~register.committed => dirty(register)
             /\ register.forced => dirty(register)
             /\ (register.committed /\ ~register.forced /\ ~register.changed)
                  => ~dirty(register)
        ELSE /\ ~dirty(register)
             /\ register.op = "mark_dirty" => register.err = ""

----------------------------------------------------------------------------
\* Digital gates (device/digital.py, device/states.py,
\* device/channel_wrapper.py): a DigitalGate on a voltage source, driven
\* through the parameters of its DigitalGateWrapper.

ConnState == {"BUS", "GND", "DAC", "DAC_BUS", "SMC", "FLOAT", "PROBE", "UNDEF"}

DigitalMode ==
    {"IN", "OUT", "PROBE_OUT", "BUS_OUT", "HIGH", "LOW", "GND", "FLOAT",
     "UNDEF"}

INPUT_MODES == {"IN", "FLOAT"}

\* DigitalMode.map_conn_state_to_digital_mode
map_conn_state_to_digital_mode(conn_state) ==
    CASE conn_state = "BUS"     -> "IN"
      [] conn_state = "GND"     -> "GND"
      [] conn_state = "DAC"     -> "OUT"
      [] conn_state = "DAC_BUS" -> "BUS_OUT"
      [] conn_state = "SMC"     -> "OUT"
      [] conn_state = "FLOAT"   -> "FLOAT"
      [] conn_state = "PROBE"   -> "PROBE_OUT"
      [] OTHER                  -> "UNDEF"

\* the voltages a gate is created with and its source starts at
Voltages == {0, 1, 2}

\* DigitalGate.__init__ followed by DigitalGateWrapper.__init__: the gate is
\* unlocked, the wrapper's connection state is UNDEF, and an unknown io_mode
\* is filled in from the connection state
DigitalGate__init__(v_high, v_low, volt, io_mode) ==
    /\ ~digital_gate.made
    /\ LET mode0 == IF io_mode = "None" THEN "UNDEF" ELSE io_mode
           state0 == "UNDEF"
       IN  digital_gate' =
             [NoGate EXCEPT
                !.made = TRUE, !.v_high = v_high, !.v_low = v_low,
                !.voltage = volt, !.voltage0 = volt,
                !.lock = FALSE, !._state = state0,
                !.io_mode = IF mode0 = "UNDEF"
                            THEN map_conn_state_to_digital_mode(state0)
                            ELSE mode0,
                !.op = "__init__"]
    /\ UNCHANGED <<register, fbk, mdac_chan, sweep, pumps, plot_vars>>

\* DigitalGate.set_raw(value) on gate g for value = out_value
set_raw(g, out_value) ==
    IF g.lock THEN g
    ELSE [g EXCEPT !.voltage = IF out_value # 0 THEN g.v_high ELSE g.v_low]

\* ChannelWrapper.set_state(val) on the wrapper of gate g
set_state(g, val) ==
    IF val \in {"GND", "BUS", "SMC", "DAC", "FLOAT"}
    THEN [g EXCEPT !._state = val]
    ELSE [g EXCEPT !.err = "ValueError"]

\* ChannelWrapper.ground, open, smc, dac and probe
ground(g) == set_state(g, "GND")

open(g) == set_state(g, "FLOAT")

smc(g) == set_state(g, "SMC")

dac(g) == set_state(g, "DAC")

probe(g) == set_state(g, "PROBE")

\* DigitalGateWrapper._set_io_mode(val) on the wrapper of gate g
_set_io_mode(g, val) ==
    LET g0 == [g EXCEPT !.lock = FALSE, !.err = ""]
        g1 == IF val \in INPUT_MODES THEN [g0 EXCEPT !.voltage = 0] ELSE g0
        g2 == CASE val = "IN"        -> smc(g1)
                [] val = "OUT"       -> dac(g1)
                [] val = "PROBE_OUT" -> probe(g1)
                [] val = "BUS_OUT"   -> set_state(g1, "DAC_BUS")
                [] val = "HIGH"      ->
                       [set_raw(dac(g1), 1) EXCEPT !.lock = TRUE]
                [] val = "LOW"       ->
                       [set_raw(dac(g1), 0) EXCEPT !.lock = TRUE]
                [] val = "GND"       -> ground(g1)
                [] val = "FLOAT"     -> open(g1)
                [] OTHER             -> [g1 EXCEPT !.err = "ValueError"]
    IN  IF g2.err # "" THEN g2 ELSE [g2 EXCEPT !.io_mode = val]

\* gate.io_mode(val) through the wrapper's parameter
SetIoMode(val) ==
    /\ digital_gate.made
    /\ LET g == _set_io_mode(digital_gate, val)
       IN  digital_gate' =
             [g EXCEPT !.op = "io_mode",
                       !.voltage0 = digital_gate.voltage,
                       !.set_mode = IF g.err = "" THEN val ELSE @]
    /\ UNCHANGED <<register, fbk, mdac_chan, sweep, pumps, plot_vars>>

\* gate.out(out_value) through the wrapper's parameter
SetOut(out_value) ==
    /\ digital_gate.made
    /\ digital_gate' =
          [set_raw(digital_gate, out_value) EXCEPT
              !.op = "out", !.err = "",
              !.voltage0 = digital_gate.voltage]
    /\ UNCHANGED <<register, fbk, mdac_chan, sweep, pumps, plot_vars>>

NextGate ==
    \/ \E v_high \in Voltages, v_low \in Voltages, volt \in Voltages,
          io_mode \in DigitalMode \cup {"None"} :
          DigitalGate__init__(v_high, v_low, volt, io_mode)
    \/ \E val \in DigitalMode : SetIoMode(val)
    \/ \E out_value \in {0, 1} : SetOut(out_value)

SpecGate == Init /\ [][NextGate]_vars

\* C20: after the io_mode was set to HIGH, LOW or GND the gate is locked and
\* a set of its output value leaves the source voltage as it was, until the
\* io_mode is changed again; after the io_mode was set to any other mode the
\* gate is unlocked.
LockFollowsIoMode ==
    (digital_gate.made /\ digital_gate.set_mode # "") =>
        IF digital_gate.set_mode \in {"HIGH", "LOW", "GND"}
        THEN /\ digital_gate.lock
             /\ digital_gate.op = "out"
                  => digital_gate.voltage = digital_gate.voltage0
        ELSE ~digital_gate.lock

----------------------------------------------------------------------------
\* Feedback (device/feedback.py): live feedback on a gate towards a target
\* value of a measured parameter.  Gate values, step and max_d are whole
\* multiples of one unit.

\* the target and tolerance a Feedback is created with
FeedbackArgs == [target |-> 0, tolerance |-> 1]

\* the step sizes and maximum distances a Feedback is created with, and the
\* values the measured parameter reads
Steps == {1, 2}

MaxDs == {2, 3}

Readings == {-1, 0, 1}

Abs(x) == IF x < 0 THEN -x ELSE x

\* Feedback.__init__ on a gate that stands at 0
Feedback__init__(step, max_d) ==
    /\ ~fbk.made
    /\ fbk' = [NoFeedback EXCEPT !.made = TRUE, !.step = step,
                                 !.max_d = max_d, !.active = FALSE,
                                 !.start_val = << >>, !.op = "__init__"]
    /\ UNCHANGED <<register, digital_gate, mdac_chan, sweep, pumps, plot_vars>>

\* what every call of a method of f remembers of the state before it
called(f, op) ==
    [f EXCEPT !.op = op, !.err = "", !.active0 = f.active,
              !.start_val0 = f.start_val, !.gate0 = f.gate]

\* Feedback.start
start(f) ==
    IF f.active THEN [f EXCEPT !.err = "RuntimeError"]
    ELSE [f EXCEPT !.start_val = <<f.gate>>, !.active = TRUE,
                   !.at_start = f.gate]

\* a stop that clears the flag and leaves the gate where it is
stop_without_restore(f) ==
    IF ~f.active THEN [f EXCEPT !.err = "RuntimeError"]
    ELSE [f EXCEPT !.active = FALSE, !.start_val = << >>]

\* Feedback.stop
stop(f) ==
    IF ~f.active THEN [f EXCEPT !.err = "RuntimeError"]
    ELSE [f EXCEPT !.gate = f.start_val[1], !.active = FALSE,
                   !.start_val = << >>]

\* the loop condition of Feedback.feedback
off_target(m) == ~(Abs(m - FeedbackArgs.target) < FeedbackArgs.tolerance)

\* Feedback.feedback up to the first test of the loop condition, with m the
\* first reading of the measured parameter
feedback(f, once, m) ==
    IF ~once /\ ~f.active THEN [f EXCEPT !.err = "RuntimeError"]
    ELSE [f EXCEPT !.once = once, !.start_v = f.gate, !.curr_v = f.gate,
                   !.meas = m,
                   !.pc = IF off_target(m) THEN "loop" ELSE "idle"]

\* one pass of the while loop of Feedback.feedback, with m the reading taken
\* at the end of the pass
feedback_pass(f, m) ==
    LET v  == IF f.meas < FeedbackArgs.target THEN f.curr_v + f.step
              ELSE f.curr_v - f.step
        f1 == [f EXCEPT !.curr_v = v, !.gate = v]
    IN  IF Abs(v - f.start_v) > f.max_d
        THEN [f1 EXCEPT !.err = "RuntimeError", !.pc = "idle"]
        ELSE [f1 EXCEPT !.meas = m,
                        !.pc = IF off_target(m) THEN "loop" ELSE "idle"]

Start ==
    /\ fbk.made /\ fbk.pc = "idle"
    /\ fbk' = start(called(fbk, "start"))
    /\ UNCHANGED <<register, digital_gate, mdac_chan, sweep, pumps, plot_vars>>

Stop ==
    /\ fbk.made /\ fbk.pc = "idle"
    /\ fbk' = stop(called(fbk, "stop"))
    /\ UNCHANGED <<register, digital_gate, mdac_chan, sweep, pumps, plot_vars>>

FeedbackCall(once, m) ==
    /\ fbk.made /\ fbk.pc = "idle"
    /\ Abs(fbk.gate) <= MaxVolt
    /\ fbk' = feedback([called(fbk, "feedback") EXCEPT !.once = once], once, m)
    /\ UNCHANGED <<register, digital_gate, mdac_chan, sweep, pumps, plot_vars>>

FeedbackPass(m) ==
    /\ fbk.made /\ fbk.pc = "loop"
    /\ fbk' = feedback_pass(fbk, m)
    /\ UNCHANGED <<register, digital_gate, mdac_chan, sweep, pumps, plot_vars>>

NextFeedback ==
    \/ \E step \in Steps, max_d \in MaxDs : Feedback__init__(step, max_d)
    \/ Start
    \/ Stop
    \/ \E once \in BOOLEAN, m \in Readings : FeedbackCall(once, m)
    \/ \E m \in Readings : FeedbackPass(m)

SpecFeedback == Init /\ [][NextFeedback]_vars

\* C21: start and stop alternate.  start() while active, and stop() or
\* feedback(once=False) while not active, raise RuntimeError and leave the
\* active flag and the saved start value as they were; every other start()
\* and stop() returns normally, and a stop() that returns has set the gate to
\* the value it had at the matching start() and cleared the active flag.
StartStopAlternate ==
    LET unchanged == /\ fbk.err = "RuntimeError"
                     /\ fbk.active = fbk.active0
                     /\ fbk.start_val = fbk.start_val0
    IN  /\ fbk.active <=> fbk.start_val # << >>
        /\ (fbk.op = "start" /\ fbk.active0) => unchanged
        /\ (fbk.op = "stop" /\ ~fbk.active0) => unchanged
        /\ (fbk.op = "feedback" /\ ~fbk.once /\ ~fbk.active0)
             => unchanged /\ fbk.pc = "idle" /\ fbk.gate = fbk.gate0
        /\ (fbk.op = "start" /\ ~fbk.active0)
             => /\ fbk.err = "" /\ fbk.active
                /\ fbk.start_val = <<fbk.gate>>
        /\ (fbk.op = "stop" /\ fbk.active0)
             => /\ fbk.err = "" /\ ~fbk.active
                /\ fbk.gate = fbk.at_start

\* a feedback moved the gate away from where start() found it, and stop()
\* brought it back
StoppedAfterMove ==
    /\ fbk.op = "stop" /\ fbk.err = ""
    /\ fbk.gate0 # fbk.gate
    /\ fbk.gate = fbk.at_start

\* C28: while feedback() runs, and when it has returned or raised, the gate
\* is no farther than max_d from the value it had when feedback() was
\* entered.
FeedbackWithinMaxD ==
    (fbk.made /\ fbk.op = "feedback" /\ (fbk.once \/ fbk.active0))
        => Abs(fbk.gate - fbk.start_v) <= fbk.max_d

----------------------------------------------------------------------------
\* Live-plotted sweeps (tools/doNd.py and tools/measure.py): a sweep function
\* wrapped so that it gets a plot window, is plotted while it runs and has
\* its figure saved when it ends.

\* the two wrappers: _live_plot.wrapped_function and _plot_sweep
Impls == {"doNd", "measure"}

\* how the wrapped sweep function ends: it returns, raises, or is cancelled
Outcomes == {"return", "Exception", "KeyboardInterrupt"}

\* _get_window(append) of either module, on sweep state s: a new window
\* (started in a new worker if there is no live one), or the last window of
\* the worker
get_window(s, append) ==
    IF ~append
    THEN [s EXCEPT !.worker = "up", !.w_run_id = 0, !.has_win = TRUE]
    ELSE CASE s.worker = "none" -> [s EXCEPT !.exc = "AttributeError"]
           [] s.worker = "dead" -> [s EXCEPT !.exc = "ClosedError"]
           [] OTHER             -> [s EXCEPT !.has_win = TRUE]

\* the two wrappers up to the call of the sweep function
sweep_enter(s, impl, plot, append, save) ==
    LET s0 == [s EXCEPT !.op = "call", !.impl = impl, !.save = save,
                        !.has_win = FALSE, !.started = 0, !.ret = 0,
                        !.exc = "", !.outcome = "", !.attempts = 0,
                        !.save_failed = FALSE, !.aborted = FALSE]
        s1 == IF plot THEN get_window(s0, append)
              ELSE IF impl = "doNd" /\ append
                   THEN [s0 EXCEPT !.exc = "RuntimeError"]
                   ELSE s0
    IN  IF s1.exc # "" THEN s1
        ELSE [s1 EXCEPT !.pc = "running",
                        !.current = IF impl = "doNd"
                                    THEN IF s1.has_win THEN "win" ELSE "nowin"
                                    ELSE @]

\* doNd.subscriber(dataset) for the dataset with run id id
subscriber(s, id) ==
    IF s.current = "None" \/ s.current = "nowin"
    THEN [s EXCEPT !.sub = "do_nothing"]
    ELSE IF s.current = "stale" \/ s.worker # "up"
         THEN [s EXCEPT !.sub = "ClosedError"]
         ELSE [s EXCEPT !.w_run_id = id, !.sub = "update_plots"]

\* a finally block in which a failing save_figure is not caught
finally_save_uncaught(s, save_ok) ==
    IF ~(s.has_win /\ s.save) THEN s
    ELSE IF s.ret = 0 /\ s.worker # "up"
         THEN [s EXCEPT !.exc = "ClosedError", !.aborted = TRUE]
         ELSE LET run_id == IF s.ret # 0 THEN s.ret ELSE s.w_run_id IN
              IF run_id = 0 THEN s
              ELSE LET failed == ~save_ok \/ s.worker # "up" IN
                   [s EXCEPT !.attempts = @ + 1, !.save_failed = failed,
                             !.exc = IF failed THEN "Exception" ELSE @,
                             !.ret = IF failed THEN 0 ELSE @,
                             !.aborted = failed]

\* the save of the finally block of either wrapper: the run id comes from
\* the result of the sweep or else from the run_id attribute of the window,
\* whose read raises ClosedError when the worker of the window is dead;
\* save_figure raises an Exception when save_ok is false or the worker is
\* dead, and the block catches it
finally_save(s, save_ok) ==
    IF ~(s.has_win /\ s.save) THEN s
    ELSE IF s.ret = 0 /\ s.worker # "up"
         THEN [s EXCEPT !.exc = "ClosedError", !.aborted = TRUE]
         ELSE LET run_id == IF s.ret # 0 THEN s.ret ELSE s.w_run_id IN
              IF run_id = 0 THEN s
              ELSE [s EXCEPT !.attempts = @ + 1,
                             !.save_failed = ~save_ok \/ s.worker # "up"]

\* the two wrappers from the end of the sweep function on
sweep_exit(s, outcome, save_ok) ==
    LET s0 == [s EXCEPT !.op = "finish", !.outcome = outcome,
                        !.ret = IF outcome = "return" THEN s.started ELSE 0,
                        !.exc = IF outcome = "return" THEN "" ELSE outcome]
        s1 == finally_save(s0, save_ok)
    IN  [s1 EXCEPT !.pc = "idle",
                   !.current = IF s.impl # "doNd" THEN @
                               ELSE IF s1.aborted THEN "stale" ELSE "None"]

\* a call of a do*d function of tools/doNd.py or tools/measure.py
SweepCall(impl, plot, append, save) ==
    /\ sweep.pc = "idle"
    /\ sweep' = sweep_enter(sweep, impl, plot, append, save)
    /\ UNCHANGED <<register, digital_gate, fbk, mdac_chan, pumps, plot_vars>>

\* qcodes starts a dataset, inside a wrapped sweep or outside of one, and
\* calls the registered subscriber factory; a sweep of tools/measure.py
\* writes the run id to its window itself
DatasetStart ==
    /\ sweep.next_id <= MaxRuns
    /\ LET id == sweep.next_id
           s1 == subscriber([sweep EXCEPT !.op = "dataset"], id)
           s2 == IF /\ s1.pc = "running" /\ s1.impl = "measure"
                    /\ s1.has_win /\ s1.worker = "up"
                 THEN [s1 EXCEPT !.w_run_id = id] ELSE s1
       IN  sweep' = [s2 EXCEPT !.next_id = id + 1,
                               !.started = IF s2.pc = "running" THEN id ELSE @,
                               !.outside = (s2.pc = "idle")]
    /\ UNCHANGED <<register, digital_gate, fbk, mdac_chan, pumps, plot_vars>>

\* the worker process of the plot windows dies
WorkerCrash ==
    /\ sweep.worker = "up"
    /\ sweep' = [sweep EXCEPT !.worker = "dead", !.op = "crash"]
    /\ UNCHANGED <<register, digital_gate, fbk, mdac_chan, pumps, plot_vars>>

\* the sweep function returns (it has started a dataset), raises or is
\* cancelled, and the wrapper runs its finally block
SweepFinish(outcome, save_ok) ==
    /\ sweep.pc = "running"
    /\ outcome = "return" => sweep.started # 0
    /\ sweep' = sweep_exit(sweep, outcome, save_ok)
    /\ UNCHANGED <<register, digital_gate, fbk, mdac_chan, pumps, plot_vars>>

NextSweep ==
    \/ \E impl \in Impls, plot \in BOOLEAN, append \in BOOLEAN,
          save \in BOOLEAN : SweepCall(impl, plot, append, save)
    \/ DatasetStart
    \/ WorkerCrash
    \/ \E outcome \in Outcomes, save_ok \in BOOLEAN :
          SweepFinish(outcome, save_ok)

SpecSweep == Init /\ [][NextSweep]_vars

\* the run id the finally block of the last sweep could get hold of: the one
\* of the sweep result, or the one the window of the sweep carries
RunIdKnown ==
    \/ sweep.outcome = "return"
    \/ sweep.worker = "up" /\ sweep.w_run_id # 0

CurrentOnlyDuringSweep ==
    /\ sweep.pc = "idle" => sweep.current = "None"
    /\ (sweep.op = "dataset" /\ sweep.outside) => sweep.sub = "do_nothing"

----------------------------------------------------------------------------
\* The two construction paths side by side.

\* the classes constructed directly and wrapped from a reference
PathClasses ==
    {"PlotDataItem", "ExtendedPlotDataItem", "HistogramLUTItem", "ImageItem",
     "ImageItemWithHistogram", "PlotItem", "PlotWindow"}

NextPaths ==
    \/ \E cls \in PathClasses : Construct(cls)
    \/ \E r \in DOMAIN robjs : FetchRef(r)
    \/ \E i \in DOMAIN objs : Autowrap(Obj(i))

SpecPaths == Init /\ [][NextPaths]_vars

\* what wrapper i was initialized with: call cache, declared options, owned
\* items and parent
Initialized(i) ==
    [rf |-> objs[i].rf, rfo |-> objs[i].rfo, items |-> objs[i].items,
     parent |-> objs[i].parent]

\* C23: a wrapper that was constructed directly and a wrapper of the same
\* class that was made by wrapping a reference are initialized alike: an
\* empty call cache, the same declared fire-and-forget options, no owned
\* items and no parent; and for every wrapper class the constructors and the
\* wrap hooks along its mro declare the same options.
PathsInitializeAlike ==
    /\ \A i \in DOMAIN objs, j \in DOMAIN objs :
          (objs[i].cls = objs[j].cls /\ objs[i].cls # "ObjectProxy")
             => Initialized(i) = Initialized(j)
    /\ \A i \in DOMAIN objs :
          objs[i].cls # "ObjectProxy"
             => /\ objs[i].rf = EmptyDict
                /\ objs[i].items = << >> /\ objs[i].parent = 0
    /\ \A c \in ClassSet : init_options(c) = wrap_options(c)

\* a wrapper of a class that declares options was constructed directly, and
\* a reference to that same remote object was wrapped into a second wrapper
\* of the class
SameClassBothPaths ==
    \E i \in DOMAIN objs, j \in DOMAIN objs :
        /\ objs[i].via = "init" /\ objs[j].via = "wrap"
        /\ objs[i].cls = objs[j].cls
        /\ objs[i].rid = objs[j].rid
        /\ objs[i].rfo # {}

----------------------------------------------------------------------------
\* The request pumps (plot/multiprocess.py): QtProcess polls the channel from
\* a QTimer in the controller, RemoteQtEventHandler polls it from a QTimer
\* in the event loop of the worker.

\* QtProcess.__init__ with processRequests=True, and startQtEventLoop in the
\* worker it spawns: both timers run, the worker is inside app.exec_()
QtProcess__init__ ==
    /\ ~pumps.made
    /\ pumps' = [NoPumps EXCEPT !.made = TRUE, !.ctl_alive = TRUE,
                                !.ctl_timer = TRUE, !.wrk_alive = TRUE,
                                !.wrk_timer = TRUE, !.wrk_app = TRUE,
                                !.op = "__init__"]
    /\ UNCHANGED <<register, digital_gate, fbk, mdac_chan, sweep, plot_vars>>

\* the controller sends a request to the worker
SendToWorker ==
    /\ pumps.ctl_alive /\ ~pumps.ctl_exited
    /\ pumps.sent < MaxReqs
    /\ pumps' = [pumps EXCEPT !.to_wrk = Append(@, "req"), !.sent = @ + 1,
                              !.op = "send"]
    /\ UNCHANGED <<register, digital_gate, fbk, mdac_chan, sweep, plot_vars>>

\* the worker sends a request to the controller (a signal connected to a
\* slot of the controller)
SendToController ==
    /\ pumps.wrk_alive /\ pumps.wrk_app /\ ~pumps.wrk_exited
    /\ pumps.sent < MaxReqs
    /\ pumps' = [pumps EXCEPT !.to_ctl = @ + 1, !.sent = @ + 1,
                              !.op = "send"]
    /\ UNCHANGED <<register, digital_gate, fbk, mdac_chan, sweep, plot_vars>>

\* RemoteEventHandler.close() in the controller: the close request is
\* written to the channel and the handler marks itself exited
PumpClose ==
    /\ pumps.ctl_alive /\ ~pumps.ctl_exited
    /\ pumps' = [pumps EXCEPT !.to_wrk = Append(@, "close"),
                              !.ctl_exited = TRUE, !.op = "close"]
    /\ UNCHANGED <<register, digital_gate, fbk, mdac_chan, sweep, plot_vars>>

\* the worker process is killed, or the controller process goes away: the
\* end of the channel that process held is closed
WorkerKilled ==
    /\ pumps.wrk_alive
    /\ pumps' = [pumps EXCEPT !.wrk_alive = FALSE, !.wrk_timer = FALSE,
                              !.wrk_app = FALSE, !.op = "killed"]
    /\ UNCHANGED <<register, digital_gate, fbk, mdac_chan, sweep, plot_vars>>

ControllerGone ==
    /\ pumps.ctl_alive
    /\ pumps' = [pumps EXCEPT !.ctl_alive = FALSE, !.ctl_timer = FALSE,
                              !.op = "gone"]
    /\ UNCHANGED <<register, digital_gate, fbk, mdac_chan, sweep, plot_vars>>

\* what reading the channel raises once the other end is closed: the
\* end-of-file the handler turns into ClosedError, or BrokenPipeError out of
\* the poll itself
PollErrors == {"ClosedError", "BrokenPipeError"}

\* the requests of queue q in front of the first close request, and whether
\* there is a close request
RECURSIVE before_close(_)
before_close(q) ==
    IF q = << >> \/ Head(q) = "close" THEN 0 ELSE 1 + before_close(Tail(q))

has_close(q) == \E i \in DOMAIN q : q[i] = "close"

\* QtProcess.processRequests, the slot of the controller's timer: only
\* ClosedError is caught
QtProcess_processRequests(e) ==
    /\ pumps.ctl_alive /\ pumps.ctl_timer
    /\ pumps' =
          IF pumps.ctl_exited
          THEN [pumps EXCEPT !.ctl_timer = FALSE, !.op = "ctl_tick",
                             !.ctl_seen = TRUE,
                             !.ctl_at_seen = IF pumps.ctl_seen THEN @
                                             ELSE pumps.ctl_done]
          ELSE LET n == pumps.ctl_done + pumps.to_ctl IN
               IF pumps.wrk_alive
               THEN [pumps EXCEPT !.ctl_done = n, !.to_ctl = 0,
                                  !.op = "ctl_tick"]
               ELSE [pumps EXCEPT
                       !.ctl_done = n, !.to_ctl = 0, !.op = "ctl_tick",
                       !.ctl_exited = (e = "ClosedError"),
                       !.ctl_timer = (e # "ClosedError"),
                       !.ctl_seen = TRUE,
                       !.ctl_at_seen = IF pumps.ctl_seen THEN @ ELSE n]
    /\ UNCHANGED <<register, digital_gate, fbk, mdac_chan, sweep, plot_vars>>

\* RemoteQtEventHandler.processRequests, the slot of the worker's timer:
\* ClosedError and BrokenPipeError stop the timer and quit the application
RemoteQtEventHandler_processRequests(e) ==
    /\ pumps.wrk_alive /\ pumps.wrk_timer
    /\ LET n      == pumps.wrk_done + before_close(pumps.to_wrk)
           closed == \/ pumps.wrk_exited \/ has_close(pumps.to_wrk)
                     \/ ~pumps.ctl_alive
       IN  pumps' =
             IF pumps.wrk_exited
             THEN [pumps EXCEPT !.wrk_timer = FALSE, !.wrk_app = FALSE,
                                !.op = "wrk_tick"]
             ELSE IF closed
             THEN [pumps EXCEPT
                     !.wrk_done = n, !.to_wrk = << >>, !.op = "wrk_tick",
                     !.wrk_exited = (has_close(pumps.to_wrk)
                                     \/ e = "ClosedError"),
                     !.wrk_timer = FALSE, !.wrk_app = FALSE,
                     !.wrk_seen = TRUE, !.wrk_at_seen = n]
             ELSE [pumps EXCEPT !.wrk_done = n, !.to_wrk = << >>,
                                !.op = "wrk_tick"]
    /\ UNCHANGED <<register, digital_gate, fbk, mdac_chan, sweep, plot_vars>>

\* app.exec_() has returned in the worker: sys.exit
WorkerExit ==
    /\ pumps.wrk_alive /\ ~pumps.wrk_app
    /\ pumps' = [pumps EXCEPT !.wrk_alive = FALSE, !.op = "exit"]
    /\ UNCHANGED <<register, digital_gate, fbk, mdac_chan, sweep, plot_vars>>

NextPumps ==
    \/ QtProcess__init__
    \/ SendToWorker
    \/ SendToController
    \/ PumpClose
    \/ WorkerKilled
    \/ ControllerGone
    \/ \E e \in PollErrors : QtProcess_processRequests(e)
    \/ \E e \in PollErrors : RemoteQtEventHandler_processRequests(e)
    \/ WorkerExit

SpecPumps == Init /\ [][NextPumps]_vars

\* C25: a pump that has run into the closed channel has stopped its timer
\* and has processed no request since; the worker's pump has also quit the
\* worker's event loop.
PumpsStopOnClose ==
    /\ pumps.ctl_seen => /\ ~pumps.ctl_timer
                         /\ pumps.ctl_done = pumps.ctl_at_seen
    /\ pumps.wrk_seen => /\ ~pumps.wrk_timer /\ ~pumps.wrk_app
                         /\ pumps.wrk_done = pumps.wrk_at_seen

----------------------------------------------------------------------------
\* MDAC channels: MDACWrapper (device/mdac_wrappers.py) and MDACGateWrapper
\* (device/gate.py) switch the four relays of a channel.

Relays == {"gnd", "smc", "bus", "dac_output"}

Wrappers == {"MDACWrapper", "MDACGateWrapper"}

\* ConnState.INPUT_MODES
ConnState_INPUT_MODES == {"BUS", "SMC", "FLOAT"}

\* every configuration of the relays and the voltage of a channel
RelayConfigs ==
    [gnd : BOOLEAN, smc : BOOLEAN, bus : BOOLEAN, dac_output : BOOLEAN,
     voltage : Voltages]

any_closed(ch) == ch.gnd \/ ch.smc \/ ch.bus \/ ch.dac_output

\* MDACWrapper.get_state
MDACWrapper_get_state(ch) ==
    IF ch.gnd
    THEN IF ~ch.smc /\ ~ch.bus THEN "GND" ELSE "UNDEF"
    ELSE IF ch.bus THEN "BUS"
         ELSE IF ch.dac_output /\ ~ch.smc THEN "DAC"
         ELSE IF ch.dac_output /\ ch.smc THEN "PROBE"
         ELSE IF ch.smc THEN "SMC"
         ELSE "FLOAT"

\* MDACGateWrapper.get_state
MDACGateWrapper_get_state(ch) ==
    IF ch.gnd
    THEN IF ~ch.smc /\ ~ch.bus THEN "GND" ELSE "UNDEF"
    ELSE IF ch.bus THEN "BUS"
         ELSE IF ch.dac_output /\ ~ch.smc THEN "DAC"
         ELSE IF ch.dac_output /\ ch.smc THEN "PROBE"
         ELSE IF ch.smc THEN "SMC"
         ELSE "UNDEF"

\* the operations MDACWrapper.set_state(val) sends to the channel, in order:
\* <<relay, TRUE>> closes a relay, <<relay, FALSE>> opens it, and
\* <<"voltage", FALSE>> is parent.voltage(0)
MDACWrapper_set_state(val) ==
    (IF val \in ConnState_INPUT_MODES THEN << <<"voltage", FALSE>> >>
     ELSE << >>)
    \o CASE val = "GND" ->
              << <<"gnd", TRUE>>, <<"smc", FALSE>>, <<"bus", FALSE>>,
                 <<"dac_output", FALSE>> >>
         [] val = "BUS" ->
              << <<"bus", TRUE>>, <<"smc", FALSE>>, <<"gnd", FALSE>>,
                 <<"dac_output", FALSE>> >>
         [] val = "DAC" ->
              << <<"dac_output", TRUE>>, <<"bus", FALSE>>, <<"smc", FALSE>>,
                 <<"gnd", FALSE>> >>
         [] val = "SMC" ->
              << <<"smc", TRUE>>, <<"dac_output", FALSE>>, <<"bus", FALSE>>,
                 <<"gnd", FALSE>> >>
         [] val = "PROBE" ->
              << <<"dac_output", TRUE>>, <<"smc", TRUE>>, <<"bus", FALSE>>,
                 <<"gnd", FALSE>> >>
         [] val = "FLOAT" ->
              << <<"dac_output", FALSE>>, <<"smc", FALSE>>, <<"bus", FALSE>>,
                 <<"gnd", FALSE>> >>
         [] val = "DAC_BUS" ->
              << <<"bus", TRUE>>, <<"dac_output", TRUE>>, <<"smc", FALSE>>,
                 <<"gnd", FALSE>> >>
         [] OTHER -> << >>

\* GateWrapper.set_state(val) on an MDACGateWrapper: ground, bus, open, dac
\* or probe of MDACGateWrapper; any other value does nothing
MDACGateWrapper_set_state(val) ==
    CASE val = "GND" ->
           << <<"gnd", TRUE>>, <<"smc", FALSE>>, <<"bus", FALSE>>,
              <<"dac_output", FALSE>> >>
      [] val = "BUS" ->
           << <<"bus", TRUE>>, <<"smc", FALSE>>, <<"gnd", FALSE>>,
              <<"dac_output", FALSE>> >>
      [] val = "SMC" ->
           << <<"smc", TRUE>>, <<"dac_output", FALSE>>, <<"bus", FALSE>>,
              <<"gnd", FALSE>> >>
      [] val = "DAC" ->
           << <<"dac_output", TRUE>>, <<"bus", FALSE>>, <<"smc", FALSE>>,
              <<"gnd", FALSE>> >>
      [] val = "PROBE" ->
           << <<"dac_output", TRUE>>, <<"bus", FALSE>>, <<"smc", TRUE>>,
              <<"gnd", FALSE>> >>
      [] OTHER -> << >>

\* one operation on the channel
relay_op(ch, o) ==
    IF o[1] = "voltage" THEN [ch EXCEPT !.voltage = 0]
    ELSE [ch EXCEPT ![o[1]] = o[2]]

\* the channel after each of the operations os, in order
RECURSIVE relay_ops(_, _)
relay_ops(ch, os) ==
    IF os = << >> THEN << >>
    ELSE <<relay_op(ch, Head(os))>> \o relay_ops(relay_op(ch, Head(os)), Tail(os))

\* a wrapper is put on a channel, whose relays and voltage are whatever they
\* were left at
WrapChannel(w, ch) ==
    /\ ~mdac_chan.made
    /\ mdac_chan' = [NoChannel EXCEPT !.made = TRUE, !.wrapper = w,
                                      !.relays = ch, !.before = ch,
                                      !.op = "__init__"]
    /\ UNCHANGED <<register, digital_gate, fbk, sweep, pumps, plot_vars>>

\* parent.voltage(v)
ChannelVoltage(v) ==
    /\ mdac_chan.made
    /\ mdac_chan' = [mdac_chan EXCEPT !.relays.voltage = v, !.fresh = FALSE,
                                      !.op = "voltage"]
    /\ UNCHANGED <<register, digital_gate, fbk, sweep, pumps, plot_vars>>

\* wrapper.state(val)
ChannelSetState(val) ==
    /\ mdac_chan.made
    /\ LET os == IF mdac_chan.wrapper = "MDACWrapper"
                 THEN MDACWrapper_set_state(val)
                 ELSE MDACGateWrapper_set_state(val)
           tr == relay_ops(mdac_chan.relays, os)
       IN  mdac_chan' =
             [mdac_chan EXCEPT
                !.before = mdac_chan.relays, !.target = val, !.log = os,
                !.trace = tr,
                !.relays = IF tr = << >> THEN @ ELSE tr[Len(tr)],
                !.fresh = TRUE, !.op = "set_state"]
    /\ UNCHANGED <<register, digital_gate, fbk, sweep, pumps, plot_vars>>

\* wrapper.state()
ChannelGetState ==
    /\ mdac_chan.made
    /\ mdac_chan.op # "get_state"
    /\ mdac_chan' =
          [mdac_chan EXCEPT
             !.read = IF mdac_chan.wrapper = "MDACWrapper"
                      THEN MDACWrapper_get_state(mdac_chan.relays)
                      ELSE MDACGateWrapper_get_state(mdac_chan.relays),
             !.fresh = (mdac_chan.op = "set_state"),
             !.op = "get_state"]
    /\ UNCHANGED <<register, digital_gate, fbk, sweep, pumps, plot_vars>>

NextChannel ==
    \/ \E w \in Wrappers, ch \in RelayConfigs : WrapChannel(w, ch)
    \/ \E v \in Voltages : ChannelVoltage(v)
    \/ \E val \in ConnState \ {"UNDEF"} : ChannelSetState(val)
    \/ ChannelGetState

SpecChannel == Init /\ [][NextChannel]_vars

\* C26: on an MDACWrapper, the state read right after set_state(s) is s, for
\* each of GND, BUS, DAC, SMC, PROBE, FLOAT and DAC_BUS.
StateReadsBack ==
    (/\ mdac_chan.made /\ mdac_chan.wrapper = "MDACWrapper"
     /\ mdac_chan.op = "get_state" /\ mdac_chan.fresh)
    => mdac_chan.read = mdac_chan.target

\* C27: in a switch to a state other than FLOAT every relay that is closed
\* is closed before any relay is opened, and a channel that had a relay
\* closed has one closed after each operation; in a switch to BUS, SMC or
\* FLOAT the voltage is set to 0 before the first relay operation.
TargetRelaysCloseFirst ==
    (mdac_chan.made /\ mdac_chan.op = "set_state") =>
      LET os == mdac_chan.log IN
      /\ mdac_chan.target # "FLOAT" =>
            /\ \A i, j \in DOMAIN os :
                  (i < j /\ os[i][1] \in Relays /\ ~os[i][2])
                    => ~(os[j][1] \in Relays /\ os[j][2])
            /\ any_closed(mdac_chan.before) =>
                  \A i \in DOMAIN os : any_closed(mdac_chan.trace[i])
      /\ (mdac_chan.target \in ConnState_INPUT_MODES /\ os # << >>)
            => os[1] = <<"voltage", FALSE>>

====
